---- MODULE Spec2Model ----
(***************************************************************************)
(* Ingestion and reconciliation pipeline of the AUJI backend:              *)
(*   app/services/scraper/save.py      save_jobs, _find_existing_job,      *)
(*                                     _update_job_fields                  *)
(*   app/services/scraper/vodafone.py  save_jobs_bulk,                     *)
(*                                     enrich_vodafone_descriptions        *)
(*   app/db.py                         SessionLocal (autoflush disabled)   *)
(*   app/models.py                     Job                                 *)
(*                                                                         *)
(* The job table is a sequence of rows; a row's id is its position.  Every *)
(* ingestion call runs in a session of its own: lookups read the committed *)
(* table (the session never flushes before its one commit), merges change  *)
(* the session's in-memory objects, inserts wait in the session's pending  *)
(* list, and the commit at the end of the call writes both.                *)
(***************************************************************************)
EXTENDS Integers, Sequences, FiniteSets, TLC

\* ---------------------------------------------------------------- bounds
MaxRecords == 2     \* rows the table may hold
MaxItems   == 2     \* candidates in one call's list
MaxClock   == 1     \* ticks of the wall clock
MaxPages   == 2     \* pages a run may ask for
MaxPerPage == 2     \* candidates one page yields
MaxPad     == 1     \* whitespace characters on either side of a label
MaxParts   == 2     \* phrases in a posted text

\* ---------------------------------------------------------------- values
None == "None"                      \* Python None / SQL NULL / absent key

\* `if v:` on a string or None, and `v not in (None, "")`
Empty(v) == v \in {None, ""}

\* Python `a or b`
Or(a, b) == IF Empty(a) THEN b ELSE a

Sessions == {"http", "sched"}       \* a request's session, the scheduler's

\* What Job would map if it declared employment_type, as the migration in
\* db.py and the extractors suppose it does.
JobFieldsWithEmploymentType ==
    {"title", "company", "location", "url", "detail_url", "apply_url",
     "category", "source", "posted_at", "created_at", "updated_at",
     "employment_type"}

\* Columns the ORM class maps (models.py).  The table also has the columns
\* employment_type and description (db.py adds them), which Job does not map.
JobFields ==
    {"title", "company", "location", "url", "detail_url", "apply_url",
     "category", "source", "posted_at", "created_at", "updated_at"}

\* The columns of table job: the mapped ones and the two db.py adds
\* (migrate_jobs_table), which no Job object ever writes.
Columns == JobFields \cup {"employment_type", "description"}

\* ---------------------------------------------------------------- Job(**d)
\* A new Job object: the mapped keys of d, absent keys take the class's
\* defaults, created_at and updated_at come from default_factory=utcnow.
\* Keys Job does not map are ignored, so their columns stay NULL.
NewJob(d, t) ==
    [ f \in Columns |->
        IF f \in {"created_at", "updated_at"} THEN t
        ELSE IF f \notin JobFields THEN None
        ELSE IF f = "company" /\ d[f] = None THEN "Vodafone"
        ELSE IF f = "source" /\ d[f] = None THEN "vodafone"
        ELSE d[f] ]

\* ---------------------------------------------------------------- save.py
\* session.exec(stmt).first() on the rows stmt selects: the statements have
\* no ORDER BY and SQLite (the configured database) walks the table, or the
\* index on the compared column, in rowid order, so it is the row with the
\* lowest id; 0 stands for None.
First(ids) == IF ids = {} THEN 0 ELSE CHOOSE i \in ids : \A j \in ids : i <= j

\* The rows a statement without the test on Job.source selects.
SelectAnySource(table, col, val, source) ==
    { i \in DOMAIN table : table[i][col] = val }

\* The rows `stmt` selects: Job.<col> == val, and Job.source == source when
\* the candidate names a source.
SelectScoped(table, col, val, source) ==
    { i \in DOMAIN table :
        /\ table[i][col] = val
        /\ (Empty(source) \/ table[i].source = source) }

\* _find_existing_job: the id of the row it returns, 0 for None.
FindExistingJob(table, item) ==
    LET byDetail == First(SelectScoped(table, "detail_url", item.detail_url, item.source))
        byApply  == First(SelectScoped(table, "apply_url", item.apply_url, item.source))
        byUrl    == First(SelectScoped(table, "url", item.url, item.source))
    IN  IF ~Empty(item.detail_url) /\ byDetail # 0 THEN byDetail
        ELSE IF ~Empty(item.apply_url) /\ byApply # 0 THEN byApply
        ELSE IF ~Empty(item.url) /\ byUrl # 0 THEN byUrl
        ELSE 0

Updatable ==
    <<"title", "company", "location", "description", "detail_url",
      "apply_url", "url", "source", "category", "posted_at">>

\* setattr(dest, key, val) raises ValueError for a key Job does not map.
SetAttrRaises(key) == key \notin JobFields

\* _update_job_fields raises iff it reaches a setattr that raises.
UpdateRaises(src) ==
    \E k \in 1..Len(Updatable) :
        ~Empty(src[Updatable[k]]) /\ SetAttrRaises(Updatable[k])

\* _update_job_fields without its test `val not in (None, "")`: every key
\* the candidate carries is written.
UpdateJobFieldsUnguarded(dest, src) ==
    [ f \in DOMAIN dest |->
        IF /\ \E k \in 1..Len(Updatable) : Updatable[k] = f
           /\ f \in DOMAIN src
        THEN src[f] ELSE dest[f] ]

\* _update_job_fields when no setattr raises.
UpdateJobFields(dest, src) ==
    [ f \in DOMAIN dest |->
        IF /\ \E k \in 1..Len(Updatable) : Updatable[k] = f
           /\ f \in DOMAIN src
           /\ ~Empty(src[f])
        THEN src[f] ELSE dest[f] ]

\* save_jobs line 99-100: raw["source"] = "vodafone" when source is falsy.
DefaultSource(raw) ==
    IF Empty(raw.source) THEN [raw EXCEPT !.source = "vodafone"] ELSE raw

\* save_jobs line 103: the candidate has some identity field.
HasIdentity(raw) ==
    ~Empty(raw.detail_url) \/ ~Empty(raw.apply_url) \/ ~Empty(raw.url)

\* ---------------------------------------------------------------- vodafone.py
\* save_jobs_bulk lines 395-404: the id of the row the three lookups leave
\* in `exists`, 0 for None.  No lookup is scoped to the candidate's source,
\* and the second one compares Job.apply_url with `apply_url or url`.
BulkFindExisting(table, it) ==
    LET detail   == it.detail_url
        apply_   == Or(it.apply_url, it.url)
        byDetail == First({ i \in DOMAIN table : table[i].detail_url = detail })
        byApply  == First({ i \in DOMAIN table : table[i].apply_url = apply_ })
        byUrl    == First({ i \in DOMAIN table : table[i].url = it.url })
    IN  IF ~Empty(detail) /\ byDetail # 0 THEN byDetail
        ELSE IF ~Empty(apply_) /\ byApply # 0 THEN byApply
        ELSE IF ~Empty(it.url) /\ byUrl # 0 THEN byUrl
        ELSE 0

BulkKeys ==
    {"company", "location", "apply_url", "detail_url", "category", "source",
     "employment_type", "posted_at", "description"}

\* A merge that takes every title the candidate supplies.
BulkTitleAlways(old, new) == ~Empty(new)

\* save_jobs_bulk line 408: the stored title gives way to the candidate's.
BulkTitleReplaced(old, new) ==
    /\ ~Empty(new)
    /\ new # "N/A"
    /\ (Empty(old) \/ old = "N/A")

\* save_jobs_bulk lines 406-426: the merge.  A setattr that raises is caught
\* and skipped (try / except Exception: pass).
BulkUpdateFields(dest, it) ==
    [ f \in DOMAIN dest |->
        IF f = "title"
        THEN IF BulkTitleReplaced(dest.title, it.title) THEN it.title ELSE dest.title
        ELSE IF f \in BulkKeys /\ ~Empty(it[f]) /\ ~SetAttrRaises(f)
        THEN it[f] ELSE dest[f] ]

\* ---------------------------------------------------------------- state
VARIABLES
    db,         \* the committed job table: a sequence of rows, id = position
    now,        \* datetime.utcnow()
    sess,       \* per session: the call it is running and its locals
    ret,        \* what the last call returned: a count, or that it raised
    lastCall,   \* the list of the save_jobs call that committed last, kept
                \* for a caller that passes the same list again
    run,        \* the ingestion run an endpoint is serving: its position,
                \* the pages extracted, the candidates collected, the response
    call,       \* a call of one of the pure helpers (normalisers, parsers,
                \* classifier): the function, its argument, its result
    ext         \* a call of an extractor: its position, the page it reads,
                \* the browser it drives, the postings it has collected

vars == <<db, now, sess, ret, lastCall, run, call, ext>>

\* A session and the locals of the loop it runs: left counts the items not
\* yet iterated, raw holds the loop variable (raw / it) once bound, exists the lookup's
\* result (0 for None), items the list as iterated so far (when the caller
\* keeps it), again tells a call that is passed the list of the call before.
IdleSession ==
    [ pc |-> "idle", kind |-> "none", left |-> 0, affected |-> 0,
      view |-> <<>>, orig |-> <<>>, pending |-> <<>>,
      raw |-> <<>>, exists |-> 0, items |-> <<>>, keep |-> FALSE,
      again |-> FALSE ]

NoCall == <<>>

Running == [ status |-> "running", count |-> 0 ]
Raised == [ status |-> "raised", count |-> 0 ]
Returned(n) == [ status |-> "returned", count |-> n ]

\* No run: no endpoint is being served, nothing was answered.
NoResponse == [ status |-> "none" ]

IdleRun ==
    [ pc |-> "idle", endpoint |-> "none", pages |-> 0, page |-> 0,
      jobs |-> <<>>, exc |-> "", resp |-> NoResponse ]

\* No helper is being called.
NoPureCall == [ fn |-> "none", pc |-> "idle" ]

\* No extractor is being called.
NoExtractor == [ fn |-> "none", pc |-> "idle" ]

Init ==
    /\ call = NoPureCall
    /\ ext = NoExtractor
    /\ run = IdleRun
    /\ db = <<>>
    /\ now = 0
    /\ sess = [ s \in Sessions |-> IdleSession ]
    /\ ret = Running
    /\ lastCall = NoCall

AllIdle == \A s \in Sessions : sess[s].pc = "idle"

PendingAll ==
    Len(sess["http"].pending) + Len(sess["sched"].pending)

\* The in-memory object for row i in session S: the identity map keeps the
\* object as loaded first, a later query does not refresh it.
Loaded(S, i) == IF i \in DOMAIN S.view THEN S.view[i] ELSE db[i]
Original(S, i) == IF i \in DOMAIN S.orig THEN S.orig[i] ELSE db[i]

\* ---------------------------------------------------------------- actions
\* A call starts on a list of n items: save_jobs(items, session) or
\* save_jobs_bulk(items).  `if not items: return 0` ends save_jobs at once.
\* keep: the caller holds on to the list and may pass it again.
Begin(s, kind, n, keep) ==
    /\ sess[s].pc = "idle"
    /\ IF kind = "save" /\ n = 0
       THEN /\ ret' = Returned(0)
            /\ UNCHANGED sess
       ELSE /\ sess' = [sess EXCEPT ![s] =
                   [IdleSession EXCEPT !.pc = "loop", !.kind = kind,
                                       !.left = n, !.keep = keep]]
            /\ ret' = Running
    /\ lastCall' = NoCall
    /\ UNCHANGED <<db, now>>

\* save_jobs is called again with the list of the call that just committed
\* (the dicts as that call left them).
BeginAgain(s) ==
    /\ sess[s].pc = "idle"
    /\ lastCall # NoCall
    /\ sess' = [sess EXCEPT ![s] =
           [IdleSession EXCEPT !.pc = "loop", !.kind = "save",
                               !.left = Len(lastCall), !.keep = TRUE,
                               !.again = TRUE]]
    /\ ret' = Running
    /\ UNCHANGED <<db, now, lastCall>>

\* The item a repeated call iterates next.
NextAgain(s) == lastCall[Len(lastCall) - sess[s].left + 1]

\* One iteration of save_jobs' loop (lines 93-112) on the item raw0.
SaveStep(s, raw0) ==
    LET S   == sess[s]
        raw == DefaultSource(raw0)
        i   == FindExistingJob(db, raw)
        S1  == [S EXCEPT !.left = @ - 1, !.raw = <<raw>>, !.exists = 0,
                         !.items = IF S.keep THEN Append(@, raw) ELSE @]
    IN  /\ S.pc = "loop" /\ S.kind = "save" /\ S.left > 0
        /\ IF ~HasIdentity(raw)
           THEN /\ sess' = [sess EXCEPT ![s] = S1]
                /\ UNCHANGED ret
           ELSE IF i = 0
           THEN /\ Len(db) + PendingAll < MaxRecords
                /\ sess' = [sess EXCEPT ![s] =
                       [S1 EXCEPT !.pending = Append(@, NewJob(raw, now)),
                                  !.affected = @ + 1]]
                /\ UNCHANGED ret
           ELSE IF UpdateRaises(raw)
           THEN \* ValueError leaves save_jobs: no commit, the session is
                \* closed
                /\ sess' = [sess EXCEPT ![s] = IdleSession]
                /\ ret' = Raised
           ELSE /\ sess' = [sess EXCEPT ![s] =
                       [S1 EXCEPT
                          !.view = (i :> UpdateJobFields(Loaded(S, i), raw)) @@ @,
                          !.orig = (i :> Original(S, i)) @@ @,
                          !.exists = i,
                          !.affected = @ + 1]]
                /\ UNCHANGED ret
        /\ UNCHANGED <<db, now, lastCall>>

\* One iteration of save_jobs_bulk's loop (lines 394-434) on the item it.
BulkStep(s, it) ==
    LET S  == sess[s]
        i  == BulkFindExisting(db, it)
        S1 == [S EXCEPT !.left = @ - 1, !.raw = <<it>>, !.exists = 0,
                        !.affected = @ + 1]
    IN  /\ S.pc = "loop" /\ S.kind = "bulk" /\ S.left > 0
        /\ IF i = 0
           THEN /\ Len(db) + PendingAll < MaxRecords
                /\ sess' = [sess EXCEPT ![s] =
                       [S1 EXCEPT !.pending = Append(@, NewJob(it, now))]]
           ELSE sess' = [sess EXCEPT ![s] =
                   [S1 EXCEPT
                      !.view = (i :> BulkUpdateFields(Loaded(S, i), it)) @@ @,
                      !.orig = (i :> Original(S, i)) @@ @,
                      !.exists = i]]
        /\ UNCHANGED <<db, now, ret, lastCall>>

\* A commit that replaced the table by what the call inserted.
FlushReplacing(table, S) == S.pending

\* session.commit(): the flush writes, for every object the session changed,
\* the attributes that differ from their loaded values, and inserts the
\* pending objects, which get the next ids.
Flush(table, S) ==
    [ i \in DOMAIN table |->
        IF i \in DOMAIN S.view
        THEN [ f \in DOMAIN table[i] |->
                 IF S.view[i][f] # S.orig[i][f] THEN S.view[i][f] ELSE table[i][f] ]
        ELSE table[i] ] \o S.pending

\* A commit after which the call returned the number of rows it inserted,
\* leaving out the rows it merged into.
CommitCountingInserts(s) ==
    LET S == sess[s]
    IN  /\ S.pc = "loop" /\ S.left = 0
        /\ db' = Flush(db, S)
        /\ ret' = Returned(Len(S.pending))
        /\ sess' = [sess EXCEPT ![s] = IdleSession]
        /\ lastCall' = IF S.keep THEN S.items ELSE NoCall
        /\ UNCHANGED now

\* The commit that ends the call (save.py line 114, vodafone.py line 435),
\* and the return of the count.
Commit(s) ==
    LET S == sess[s]
    IN  /\ S.pc = "loop" /\ S.left = 0
        /\ db' = Flush(db, S)
        /\ ret' = Returned(S.affected)
        /\ sess' = [sess EXCEPT ![s] = IdleSession]
        /\ lastCall' = IF S.keep THEN S.items ELSE NoCall
        /\ UNCHANGED now

\* A session that wrote what it held when it was closed.
RollbackFlushing(table, S) == Flush(table, S)

\* What the table holds once a session is closed without a commit: the
\* pending inserts and the changed attributes were never flushed
\* (autoflush=False) and are dropped with the session.
Rollback(table, S) == table

\* A statement of save_jobs raises inside an iteration (the store fails on
\* a lookup): the exception leaves save_jobs before session.commit().
SaveRaises(s) ==
    LET S == sess[s]
    IN  /\ S.pc = "loop" /\ S.kind = "save" /\ S.left > 0
        /\ sess' = [sess EXCEPT ![s] = [S EXCEPT !.pc = "raised"]]
        /\ ret' = Raised
        /\ UNCHANGED <<db, now, lastCall>>

\* The exception leaves `with SessionLocal() as session` of get_session
\* (`with next(get_session()) as db` for the wrapper): the session is
\* closed.
CloseSession(s) ==
    LET S == sess[s]
    IN  /\ S.pc = "raised"
        /\ db' = Rollback(db, S)
        /\ sess' = [sess EXCEPT ![s] = IdleSession]
        /\ UNCHANGED <<now, ret, lastCall>>

\* enrich_vodafone_descriptions: building the query reads Job.description,
\* an attribute the class does not have; the call raises before any write.
Enrich(s) ==
    /\ sess[s].pc = "idle"
    /\ "description" \notin JobFields
    /\ ret' = Raised
    /\ UNCHANGED <<db, now, sess, lastCall>>

Tick ==
    /\ now < MaxClock
    /\ now' = now + 1
    /\ UNCHANGED <<db, sess, ret, lastCall>>

\* ---------------------------------------------------------------- inputs
\* What the extractors put in a candidate besides its identity
\* (vodafone.py lines 345-360, mostaql.py lines 201-213).
Payload(t, co, loc, desc, cat, et, p) ==
    [ title |-> t, company |-> co, location |-> loc, description |-> desc,
      category |-> cat, employment_type |-> et, posted_at |-> p ]

Cand(src, d, a, u, P) ==
    [ title |-> P.title, company |-> P.company, location |-> P.location,
      description |-> P.description, detail_url |-> d, apply_url |-> a,
      url |-> u, source |-> src, category |-> P.category,
      employment_type |-> P.employment_type, posted_at |-> P.posted_at ]

PlainPayload == Payload("T1", "Vodafone", None, None, None, "full_time", None)

\* Candidates that differ in identity and source: detail only (from either
\* source, or naming none), apply only, both, all three alike, the legacy
\* url only, none.
IdentCands ==
    { Cand(src, "u1", None, None, PlainPayload) : src \in {None, "vodafone", "mostaql"} }
    \cup
    { Cand("vodafone", t[1], t[2], t[3], PlainPayload) :
        t \in { <<None, "u2", None>>, <<"u1", "u2", None>>,
                <<"u2", "u2", "u2">>, <<None, None, "u2">> } }
    \cup
    { Cand(None, None, None, None, PlainPayload) }

\* Candidates for one posting (and a second one) that differ in what they
\* supply: full values, other full values, empty strings and None, the
\* placeholder title with a description.
MergeCands ==
    { Cand("vodafone", "u1", None, None, P) :
        P \in { PlainPayload,
                Payload("T2", "Acme", "L1", None, "ML", "freelance", "p1"),
                Payload("", None, "", None, "", "", None),
                Payload("N/A", "Vodafone", "L2", "desc", "DA", "full_time", "p2") } }
    \cup
    { Cand("vodafone", "u2", None, None,
           Payload("T2", "Acme", "L1", None, "ML", "freelance", "p1")) }

\* ---------------------------------------------------------------- next
\* Calls run one after another (single process, one ingestion at a time):
\* the endpoints call save_jobs, the scheduler's job calls save_jobs_bulk,
\* each on a list of candidates drawn from C.
NextOver(C) ==
    \/ \E n \in 0..MaxItems : AllIdle /\ Begin("http", "save", n, FALSE)
    \/ \E n \in 0..MaxItems : AllIdle /\ Begin("sched", "bulk", n, FALSE)
    \/ \E s \in Sessions, c \in C : SaveStep(s, c)
    \/ \E s \in Sessions, c \in C : BulkStep(s, c)
    \/ \E s \in Sessions : Commit(s)
    \/ AllIdle /\ Enrich("http")

\* Identity resolution: the clock plays no part and stands still.
Next == NextOver(IdentCands) /\ UNCHANGED <<run, call, ext>>

Spec == Init /\ [][Next]_vars

\* Merging: the same calls on candidates that differ in their values, while
\* time passes.
NextMerge == (NextOver(MergeCands) \/ Tick) /\ UNCHANGED <<run, call, ext>>

SpecMerge == Init /\ [][NextMerge]_vars

\* save_jobs alone, one call after another on an initially empty table.
NextSave ==
    /\ \/ \E n \in 0..MaxItems : Begin("http", "save", n, FALSE)
       \/ \E c \in IdentCands : SaveStep("http", c)
       \/ Commit("http")
    /\ UNCHANGED <<run, call, ext>>

SpecSave == Init /\ [][NextSave]_vars

\* save_jobs alone, where a caller may pass the same list twice in a row.
NextRepeat ==
    /\ \/ \E n \in 0..MaxItems : Begin("http", "save", n, TRUE)
       \/ BeginAgain("http")
       \/ \E c \in IdentCands : ~sess["http"].again /\ SaveStep("http", c)
       \/ /\ sess["http"].again
          /\ sess["http"].left > 0
          /\ SaveStep("http", NextAgain("http"))
       \/ Commit("http")
    /\ UNCHANGED <<run, call, ext>>

SpecRepeat == Init /\ [][NextRepeat]_vars

\* save_jobs alone, where the store may fail on a lookup.
NextAtomic ==
    /\ \/ \E n \in 0..MaxItems : Begin("http", "save", n, FALSE)
       \/ \E c \in MergeCands : SaveStep("http", c)
       \/ Commit("http")
       \/ SaveRaises("http")
       \/ CloseSession("http")
    /\ UNCHANGED <<run, call, ext>>

SpecAtomic == Init /\ [][NextAtomic]_vars

\* Two runs at once: an endpoint's save_jobs in a worker thread and the
\* scheduler's save_jobs_bulk in the scheduler's thread, each on a list of
\* one Vodafone candidate and each with a session of its own.
ConcCands ==
    { Cand("vodafone", t[1], t[2], t[3], PlainPayload) :
        t \in { <<"u1", None, None>>, <<"u1", "u2", None>>, <<"u2", "u2", "u2">> } }

NextConc ==
    /\ \/ Begin("http", "save", 1, FALSE)
       \/ Begin("sched", "bulk", 1, FALSE)
       \/ \E s \in Sessions, c \in ConcCands : SaveStep(s, c)
       \/ \E s \in Sessions, c \in ConcCands : BulkStep(s, c)
       \/ \E s \in Sessions : Commit(s)
    /\ UNCHANGED <<run, call, ext>>

SpecConc == Init /\ [][NextConc]_vars

\* The two implementations side by side: after calls that filled the table,
\* save_jobs in one session and save_jobs_bulk in another iterate a list of
\* one candidate each; neither sees what the other holds, and neither
\* commits while the other is at work, so both read the same table.  The
\* candidates name their source.
BothCands ==
    { c \in IdentCands : c.source # None }
    \cup { Cand("vodafone", None, None, None, PlainPayload) }

NextBoth ==
    /\ \/ Begin("http", "save", 1, FALSE)
       \/ Begin("sched", "bulk", 1, FALSE)
       \/ \E c \in BothCands : SaveStep("http", c)
       \/ \E c \in BothCands : BulkStep("sched", c)
       \/ \E s \in Sessions :
             /\ \A o \in Sessions \ {s} : sess[o].pc = "idle"
             /\ Commit(s)
    /\ UNCHANGED <<run, call, ext>>

SpecBoth == Init /\ [][NextBoth]_vars

\* ---------------------------------------------------------------- runs
\* The ingestion trigger endpoints of routers/scrape.py.
Endpoints ==
    {"vodafone/run", "vodafone/run-url", "vodafone/run-profiles",
     "mostaql/run", "mostaql/run-direct"}

\* What the endpoint saves with: scrape_and_save_vodafone_for_profiles ends
\* in vodafone.save_jobs_bulk, the other three call save_jobs.
SavesWith(e) ==
    IF e \in {"vodafone/run", "vodafone/run-profiles"} THEN "bulk" ELSE "save"

\* run-url fetches its one results page; the others loop over pages.
PagesOf(e) == IF e = "vodafone/run-url" THEN {1} ELSE 1..MaxPages

\* Candidates as the two extractors build them: Vodafone's with a detail
\* link and the canonical apply link (with or without the requirements
\* text) or for a card without a link; Mostaql's with the project link in
\* all three fields.
VodafoneCands ==
    { Cand("vodafone", "u1", "u2", "u2",
           Payload("T1", "Vodafone", "L1", None, "DA", "full_time", "p1")),
      Cand("vodafone", "u1", "u2", "u2",
           Payload("T1", "Vodafone", "L1", "desc", "DA", "full_time", "p1")),
      Cand("vodafone", None, None, None,
           Payload("N/A", "Vodafone", None, None, "DA", "full_time", "p1")) }

MostaqlCands ==
    { Cand("mostaql", u, u, u,
           Payload("T2", "Owner", None, None, "DA", "freelance", "p1")) :
        u \in {"u3", "u4"} }

Extracts(e) ==
    IF e \in {"mostaql/run", "mostaql/run-direct"} THEN MostaqlCands
    ELSE VodafoneCands

\* The candidates one page can yield: up to MaxPerPage of them.
PageBatches(e) ==
    UNION { [1..n -> Extracts(e)] : n \in 0..MaxPerPage }

\* The responses: the result object of a save_jobs endpoint, that of a
\* save_jobs_bulk endpoint, and HTTPException(500, detail=str(e)).
OkSaved(fetched, saved) ==
    [ status |-> "ok", fetched |-> fetched, saved |-> saved ]
OkSavedOrUpdated(saved) == [ status |-> "ok", saved_or_updated |-> saved ]
Failure(msg) == [ status |-> "error", detail |-> msg ]

\* A request reaches endpoint e, asking for `pages` pages.
RunBegin(e, pages) ==
    /\ run.pc \in {"idle", "done"}
    /\ AllIdle
    /\ run' = [IdleRun EXCEPT !.pc = "fetch", !.endpoint = e, !.pages = pages]
    /\ UNCHANGED <<db, now, sess, ret, lastCall>>

\* One page iteration: the page is loaded and its candidates are appended
\* to the list the run collects (all_jobs.extend / results.extend).
RunFetchPage(batch) ==
    /\ run.pc = "fetch"
    /\ run.page < run.pages
    /\ Len(run.jobs) + Len(batch) <= MaxItems
    /\ run' = [run EXCEPT !.page = @ + 1, !.jobs = @ \o batch]
    /\ UNCHANGED <<db, now, sess, ret, lastCall>>

\* The extractor raises while loading a page (driver.get, page.goto): the
\* exception leaves the scraping function, whose list is lost, and reaches
\* the endpoint's except clause.
RunFetchFails ==
    /\ run.pc = "fetch"
    /\ run.page < run.pages
    /\ run' = [run EXCEPT !.pc = "except", !.jobs = <<>>,
                          !.exc = "extractor error"]
    /\ UNCHANGED <<db, now, sess, ret, lastCall>>

\* All pages done: the collected list goes to save_jobs / save_jobs_bulk.
RunSaveBegin ==
    /\ run.pc = "fetch"
    /\ run.page = run.pages
    /\ Begin("http", SavesWith(run.endpoint), Len(run.jobs), FALSE)
    /\ run' = [run EXCEPT !.pc = "save"]

\* The item the save loop of the run iterates next.
RunItem == run.jobs[Len(run.jobs) - sess["http"].left + 1]

RunSaveStep ==
    /\ run.pc = "save"
    /\ sess["http"].pc = "loop"
    /\ sess["http"].left > 0
    /\ \/ SaveStep("http", RunItem)
       \/ BulkStep("http", RunItem)
    /\ UNCHANGED run

RunCommit ==
    /\ run.pc = "save"
    /\ Commit("http")
    /\ UNCHANGED run

\* An endpoint without the except clause's raise: it would answer an
\* exception with a result object holding what it has.
RunRespondPartial ==
    /\ \/ run.pc = "except"
       \/ run.pc = "save" /\ sess["http"].pc = "idle" /\ ret.status # "running"
    /\ run' = [run EXCEPT
          !.pc = "done",
          !.resp = IF SavesWith(run.endpoint) = "bulk"
                   THEN OkSavedOrUpdated(ret.count)
                   ELSE OkSaved(Len(run.jobs), ret.count)]
    /\ UNCHANGED <<db, now, sess, ret, lastCall>>

\* The endpoint answers: the except clause turns an exception of the
\* extractor or of the store into HTTPException(500, detail=str(e)); else
\* the result object is returned.
RunRespond ==
    /\ \/ run.pc = "except"
       \/ run.pc = "save" /\ sess["http"].pc = "idle" /\ ret.status # "running"
    /\ run' = [run EXCEPT
          !.pc = "done",
          !.resp =
             IF run.pc = "except" THEN Failure(run.exc)
             ELSE IF ret.status = "raised" THEN Failure("store error")
             ELSE IF SavesWith(run.endpoint) = "bulk"
                  THEN OkSavedOrUpdated(ret.count)
                  ELSE OkSaved(Len(run.jobs), ret.count)]
    /\ UNCHANGED <<db, now, sess, ret, lastCall>>

NextRun ==
    /\ \/ \E e \in Endpoints : \E n \in PagesOf(e) : RunBegin(e, n)
       \/ \E b \in PageBatches(run.endpoint) : RunFetchPage(b)
       \/ RunFetchFails
       \/ RunSaveBegin
       \/ RunSaveStep
       \/ RunCommit
       \/ RunRespond
    /\ UNCHANGED <<call, ext>>

SpecRun == Init /\ [][NextRun]_vars

\* ---------------------------------------------------------------- strings
\* A Python string is the sequence of its characters; an ASCII character is
\* itself, any other one is named by its code point ("U+062F").  A value
\* that may be None is a record: PyNone, or PyStr(s) for the string s.
PyNone == [ none |-> TRUE, str |-> <<>> ]
PyStr(s) == [ none |-> FALSE, str |-> s ]

\* Characters str.strip() removes (the ASCII ones that occur in listings).
Whitespace == {" ", "\t", "\n"}

UpperCase ==
    <<"A", "B", "C", "D", "E", "F", "G", "H", "I", "J", "K", "L", "M", "N", "O", "P"
     , "Q", "R", "S", "T", "U", "V", "W", "X", "Y", "Z">>
LowerCase ==
    <<"a", "b", "c", "d", "e", "f", "g", "h", "i", "j", "k", "l", "m", "n", "o", "p"
     , "q", "r", "s", "t", "u", "v", "w", "x", "y", "z">>

\* str.lower() on one character: A-Z go to a-z; the Arabic letters and the
\* other characters used here have no case.
LowerChar(c) ==
    IF \E k \in DOMAIN UpperCase : UpperCase[k] = c
    THEN LowerCase[CHOOSE k \in DOMAIN UpperCase : UpperCase[k] = c]
    ELSE c

Lower(s) == [ i \in DOMAIN s |-> LowerChar(s[i]) ]

RECURSIVE LStrip(_)
LStrip(s) ==
    IF s # <<>> /\ Head(s) \in Whitespace THEN LStrip(Tail(s)) ELSE s

RECURSIVE RStrip(_)
RStrip(s) ==
    IF s # <<>> /\ s[Len(s)] \in Whitespace
    THEN RStrip(SubSeq(s, 1, Len(s) - 1)) ELSE s

\* str.strip()
Strip(s) == RStrip(LStrip(s))

\* ---------------------------------------------------------------- normalize.py
\* The dict literal `mapping` of norm_employment_type, pair by pair in the
\* order written.
mapping ==
    << <<<<"U+062F", "U+0648", "U+0627", "U+0645", " ", "U+0643", "U+0627", "U+0645", "U+0644">>,
         <<"f", "u", "l", "l", "_", "t", "i", "m", "e">>>>,
       <<<<"U+062F", "U+0648", "U+0627", "U+0645", " ", "U+062C", "U+0632", "U+0626", "U+064A">>,
         <<"p", "a", "r", "t", "_", "t", "i", "m", "e">>>>,
       <<<<"U+062A", "U+062F", "U+0631", "U+064A", "U+0628">>,
         <<"i", "n", "t", "e", "r", "n", "s", "h", "i", "p">>>>,
       <<<<"U+0639", "U+0645", "U+0644", " ", "U+062D", "U+0631">>,
         <<"f", "r", "e", "e", "l", "a", "n", "c", "e">>>>,
       <<<<"f", "u", "l", "l", "_", "t", "i", "m", "e">>,
         <<"f", "u", "l", "l", "_", "t", "i", "m", "e">>>>,
       <<<<"f", "u", "l", "l", "-", "t", "i", "m", "e">>,
         <<"f", "u", "l", "l", "_", "t", "i", "m", "e">>>>,
       <<<<"f", "u", "l", "l", " ", "t", "i", "m", "e">>,
         <<"f", "u", "l", "l", "_", "t", "i", "m", "e">>>>,
       <<<<"p", "a", "r", "t", "_", "t", "i", "m", "e">>,
         <<"p", "a", "r", "t", "_", "t", "i", "m", "e">>>>,
       <<<<"p", "a", "r", "t", "-", "t", "i", "m", "e">>,
         <<"p", "a", "r", "t", "_", "t", "i", "m", "e">>>>,
       <<<<"p", "a", "r", "t", " ", "t", "i", "m", "e">>,
         <<"p", "a", "r", "t", "_", "t", "i", "m", "e">>>>,
       <<<<"i", "n", "t", "e", "r", "n">>,
         <<"i", "n", "t", "e", "r", "n", "s", "h", "i", "p">>>>,
       <<<<"i", "n", "t", "e", "r", "n", "s", "h", "i", "p">>,
         <<"i", "n", "t", "e", "r", "n", "s", "h", "i", "p">>>>,
       <<<<"f", "r", "e", "e", "l", "a", "n", "c", "e">>,
         <<"f", "r", "e", "e", "l", "a", "n", "c", "e">>>>,
       <<<<"c", "o", "n", "t", "r", "a", "c", "t">>,
         <<"f", "r", "e", "e", "l", "a", "n", "c", "e">>>>,
       <<<<"g", "i", "g">>,
         <<"f", "r", "e", "e", "l", "a", "n", "c", "e">>>> >>

\* A lookup that never finds the key.
DictGetNothing(pairs, key, default) == default

\* dict.get(key, default) on a dict literal given as its pairs: the last
\* pair with the key holds its value.
DictGet(pairs, key, default) ==
    LET at == { i \in DOMAIN pairs : pairs[i][1] = key }
    IN  IF at = {} THEN default
        ELSE pairs[CHOOSE i \in at : \A j \in at : j <= i][2]

norm_employment_type(v) ==
    IF v.none \/ v.str = <<>> THEN PyNone
    ELSE LET s == Lower(Strip(v.str))
         IN  PyStr(DictGet(mapping, s, s))

\* ---------------------------------------------------------------- datetimes
\* A datetime is the number of minutes since datetime.min (the parsers
\* subtract whole minutes, hours and days from the time of the call).
\* UtcNow is datetime.utcnow() at the call: a moment in November 2026.
UtcNow == 1065490000

NoneTime == [ kind |-> "none" ]
Time(m) == [ kind |-> "time", at |-> m ]
Raises(e) == [ kind |-> "raised", exc |-> e ]

MinutesIn == [ minutes |-> 1, hours |-> 60, days |-> 1440 ]

\* t - timedelta(unit=n): OverflowError ("date value out of range") when
\* the result would lie before datetime.min.
Minus(t, n, unit) ==
    IF n * MinutesIn[unit] > t THEN Raises("OverflowError")
    ELSE Time(t - n * MinutesIn[unit])

\* ---------------------------------------------------------------- regex
Digits == <<"0", "1", "2", "3", "4", "5", "6", "7", "8", "9">>
DigitSet == { Digits[k] : k \in DOMAIN Digits }

\* int(s) for a string of ASCII digits.
RECURSIVE ParseInt(_)
ParseInt(s) ==
    IF s = <<>> THEN 0
    ELSE 10 * ParseInt(SubSeq(s, 1, Len(s) - 1))
         + (CHOOSE k \in DOMAIN Digits : Digits[k] = s[Len(s)]) - 1

\* The index after the run of characters of set cs that starts at i.
RECURSIVE RunEnd(_, _, _)
RunEnd(t, i, cs) ==
    IF i <= Len(t) /\ t[i] \in cs THEN RunEnd(t, i + 1, cs) ELSE i

\* t[i..] starts with w
StartsWith(t, i, w) ==
    /\ i + Len(w) - 1 <= Len(t)
    /\ SubSeq(t, i, i + Len(w) - 1) = w

\* `w in t`
Contains(t, w) == \E i \in 1..(Len(t) + 1) : StartsWith(t, i, w)

\* Where r"(\d+)\s*(?:w1|w2)" matches from index i: \d+ and \s* are greedy
\* and no word starts with a digit or a space, so the match takes the whole
\* run of digits at i, the whole run of whitespace after it, then a word.
MatchesAt(t, i, words) ==
    /\ i <= Len(t)
    /\ t[i] \in DigitSet
    /\ \E w \in words :
          StartsWith(t, RunEnd(t, RunEnd(t, i, DigitSet), Whitespace), w)

\* re.search(r"(\d+)\s*(?:w1|w2)", t): group(1) of the leftmost match, as a
\* one-element sequence; <<>> for no match.
SearchNumberBefore(t, words) ==
    LET at == { i \in DOMAIN t : MatchesAt(t, i, words) }
    IN  IF at = {} THEN <<>>
        ELSE LET i == CHOOSE i \in at : \A j \in at : i <= j
             IN  << SubSeq(t, i, RunEnd(t, i, DigitSet) - 1) >>

\* re.search(r"(\d+)", t): the first run of digits, <<>> for no match.
SearchNumber(t) ==
    LET at == { i \in DOMAIN t : t[i] \in DigitSet }
    IN  IF at = {} THEN <<>>
        ELSE LET i == CHOOSE i \in at : \A j \in at : i <= j
             IN  << SubSeq(t, i, RunEnd(t, i, DigitSet) - 1) >>

\* ---------------------------------------------------------------- mostaql.py
\* _AR_NUM: the Arabic-Indic digits U+0660..U+0669, in the order of Digits.
AR_NUM ==
    <<"U+0660", "U+0661", "U+0662", "U+0663", "U+0664", "U+0665", "U+0666", 
     "U+0667", "U+0668", "U+0669">>

\* _to_ascii_digits
to_ascii_digits(s) ==
    [ i \in DOMAIN s |->
        IF \E k \in DOMAIN AR_NUM : AR_NUM[k] = s[i]
        THEN Digits[CHOOSE k \in DOMAIN AR_NUM : AR_NUM[k] = s[i]]
        ELSE s[i] ]

\* The words of parse_ar_posted's patterns: minute / minutes, hour / hours,
\* day / days, week.
MinuteWords == { <<"U+062F", "U+0642", "U+064A", "U+0642", "U+0629">>,
                 <<"U+062F", "U+0642", "U+0627", "U+0626", "U+0642">> }
HourWords == { <<"U+0633", "U+0627", "U+0639", "U+0629">>,
               <<"U+0633", "U+0627", "U+0639", "U+0627", "U+062A">> }
DayWords == { <<"U+064A", "U+0648", "U+0645">>,
              <<"U+0623", "U+064A", "U+0627", "U+0645">> }
WeekWord == <<"U+0623", "U+0633", "U+0628", "U+0648", "U+0639">>

parse_ar_posted(text, utcnow) ==
    IF text.none \/ text.str = <<>> THEN NoneTime
    ELSE LET t  == to_ascii_digits(Strip(text.str))
             mi == SearchNumberBefore(t, MinuteWords)
             ho == SearchNumberBefore(t, HourWords)
             da == SearchNumberBefore(t, DayWords)
         IN  IF mi # <<>> THEN Minus(utcnow, ParseInt(mi[1]), "minutes")
             ELSE IF ho # <<>> THEN Minus(utcnow, ParseInt(ho[1]), "hours")
             ELSE IF da # <<>> THEN Minus(utcnow, ParseInt(da[1]), "days")
             ELSE IF Contains(t, WeekWord) THEN Minus(utcnow, 7, "days")
             ELSE Time(utcnow)

\* ---------------------------------------------------------------- vodafone.py
\* The calendar of datetime: leap years, the days of a month, and the
\* minutes from datetime.min to midnight of a date.
IsLeap(y) == y % 4 = 0 /\ (y % 100 # 0 \/ y % 400 = 0)

DaysInMonth(y, m) ==
    IF m = 2 THEN (IF IsLeap(y) THEN 29 ELSE 28)
    ELSE IF m \in {4, 6, 9, 11} THEN 30 ELSE 31

RECURSIVE DaysBeforeMonth(_, _)
DaysBeforeMonth(y, m) ==
    IF m = 1 THEN 0 ELSE DaysBeforeMonth(y, m - 1) + DaysInMonth(y, m - 1)

DateMinutes(y, m, d) ==
    LET before == 365 * (y - 1) + ((y - 1) \div 4) - ((y - 1) \div 100)
                  + ((y - 1) \div 400)
    IN  (before + DaysBeforeMonth(y, m) + d - 1) * 1440

AllDigits(x) == x # <<>> /\ \A i \in DOMAIN x : x[i] \in DigitSet

\* datetime.strptime(t, "%Y-%m-%d"): the date as a one-element sequence,
\* <<>> where it raises ValueError.  %Y is four digits, %m one or two, %d
\* one or two (or a space and one), the three separated by "-", and the
\* date must exist.
StrptimeYmd(t) ==
    LET dashes == { i \in DOMAIN t : t[i] = "-" }
        i1 == CHOOSE i \in dashes : \A j \in dashes : i <= j
        i2 == CHOOSE i \in dashes : \A j \in dashes : j <= i
        ys == SubSeq(t, 1, i1 - 1)
        ms == SubSeq(t, i1 + 1, i2 - 1)
        ds0 == SubSeq(t, i2 + 1, Len(t))
        ds == IF Len(ds0) = 2 /\ ds0[1] = " " THEN Tail(ds0) ELSE ds0
    IN  IF /\ Cardinality(dashes) = 2
           /\ AllDigits(ys) /\ Len(ys) = 4
           /\ AllDigits(ms) /\ Len(ms) <= 2
           /\ AllDigits(ds) /\ Len(ds) <= 2
           /\ ParseInt(ys) >= 1
           /\ ParseInt(ms) \in 1..12
           /\ ParseInt(ds) \in 1..DaysInMonth(ParseInt(ys), ParseInt(ms))
        THEN << Time(DateMinutes(ParseInt(ys), ParseInt(ms), ParseInt(ds))) >>
        ELSE <<>>

DayAgo == <<"d", "a", "y", " ", "a", "g", "o">>
DaysAgo == <<"d", "a", "y", "s", " ", "a", "g", "o">>
HourAgo == <<"h", "o", "u", "r", " ", "a", "g", "o">>
HoursAgo == <<"h", "o", "u", "r", "s", " ", "a", "g", "o">>
MinuteAgo == <<"m", "i", "n", "u", "t", "e", " ", "a", "g", "o">>
MinutesAgo == <<"m", "i", "n", "u", "t", "e", "s", " ", "a", "g", "o">>

\* parse_posted_at.  Inside its try block a missing number (re.search gives
\* None, .group raises AttributeError), a subtraction that overflows and a
\* date strptime rejects all end in `except Exception: return now`.
parse_posted_at(text, utcnow) ==
    IF text.none \/ text.str = <<>> THEN Time(utcnow)
    ELSE LET t == Lower(Strip(text.str))
             n == SearchNumber(t)
             Ago(unit) ==
                 IF n = <<>> THEN Time(utcnow)
                 ELSE IF Minus(utcnow, ParseInt(n[1]), unit).kind = "raised"
                      THEN Time(utcnow)
                      ELSE Minus(utcnow, ParseInt(n[1]), unit)
             iso == StrptimeYmd(t)
         IN  IF Contains(t, DayAgo) THEN Minus(utcnow, 1, "days")
             ELSE IF Contains(t, DaysAgo) THEN Ago("days")
             ELSE IF Contains(t, HourAgo) THEN Minus(utcnow, 1, "hours")
             ELSE IF Contains(t, HoursAgo) THEN Ago("hours")
             ELSE IF Contains(t, MinuteAgo) THEN Minus(utcnow, 1, "minutes")
             ELSE IF Contains(t, MinutesAgo) THEN Ago("minutes")
             ELSE IF iso # <<>> THEN iso[1]
             ELSE Time(utcnow)

\* ---------------------------------------------------------------- helper calls
\* A helper is called with argument a: the state before it returns.
Called(fn, a) == [ fn |-> fn, pc |-> "called", arg |-> a ]

\* The state of the store and of the runs while only helpers are called.
InitHelpers(fn, args) ==
    /\ call \in { Called(fn, a) : a \in args }
    /\ ext = NoExtractor
    /\ run = IdleRun
    /\ db = <<>>
    /\ now = 0
    /\ sess = [ s \in Sessions |-> IdleSession ]
    /\ ret = Running
    /\ lastCall = NoCall

\* The helper returns out.
Return(out) ==
    /\ call.pc = "called"
    /\ call' = [ fn |-> call.fn, pc |-> "returned", arg |-> call.arg,
                 out |-> out ]
    /\ UNCHANGED <<db, now, sess, ret, lastCall, run, ext>>

\* Strings of whitespace of up to MaxPad characters.
Pads == UNION { [1..n -> Whitespace] : n \in 0..MaxPad }

UpperChar(c) ==
    IF \E k \in DOMAIN LowerCase : LowerCase[k] = c
    THEN UpperCase[CHOOSE k \in DOMAIN LowerCase : LowerCase[k] = c]
    ELSE c

\* A word as written, in capitals, and with a capital first letter.
Casings(w) ==
    { w,
      [ i \in DOMAIN w |-> UpperChar(w[i]) ],
      [ i \in DOMAIN w |-> IF i = 1 THEN UpperChar(w[i]) ELSE w[i] ] }

\* The labels listings carry: the keys and values of the alias table and
\* two labels it does not know, in any casing, with whitespace around
\* them; no label at all, the empty label, a label of whitespace only.
EmploymentLabels ==
    { mapping[i][1] : i \in DOMAIN mapping }
    \cup { mapping[i][2] : i \in DOMAIN mapping }
    \cup { <<"r", "e", "m", "o", "t", "e">>,
           <<"U+062F", "U+0648", "U+0627", "U+0645">> }

NormInputs ==
    { PyNone }
    \cup { PyStr(p) : p \in Pads }
    \cup { PyStr(l \o c \o r) :
             l \in Pads, r \in Pads,
             c \in UNION { Casings(w) : w \in EmploymentLabels } }

InitNorm == InitHelpers("norm_employment_type", NormInputs)

NormReturns ==
    /\ call.fn = "norm_employment_type"
    /\ Return(norm_employment_type(call.arg))

SpecNorm == InitNorm /\ [][NormReturns]_vars

\* ---------------------------------------------------------------- posted texts
\* The phrases s[1], .., s[n] with one space between them.
RECURSIVE Join(_)
Join(s) ==
    IF Len(s) = 0 THEN <<>>
    ELSE IF Len(s) = 1 THEN s[1]
    ELSE s[1] \o <<" ">> \o Join(Tail(s))

\* Arabic phrases of a listing's meta line: a number (ASCII, Arabic-Indic,
\* or one that reaches back beyond datetime.min) before a word for minutes,
\* hours or days, with or without a space; these words alone; the word for
\* week; the word "since" (U+0645 U+0646 U+0630); a number alone.
ArNumbers == { <<"3">>, <<"U+0663", "U+0660">>, <<"8", "0", "0", "0", "0", "0">> }

ArPhrases ==
    { n \o sp \o w :
        n \in ArNumbers, sp \in {<<>>, <<" ">>},
        w \in MinuteWords \cup HourWords \cup DayWords }
    \cup MinuteWords \cup HourWords \cup DayWords
    \cup { WeekWord, <<"U+0645", "U+0646", "U+0630">>, <<"5">> }

ArInputs ==
    { PyNone }
    \cup { PyStr(p) : p \in Pads }
    \cup { PyStr(l \o ph \o r) : l \in Pads, r \in Pads, ph \in ArPhrases }
    \cup { PyStr(Join(phs)) :
             phs \in UNION { [1..n -> ArPhrases] : n \in 2..MaxParts } }

\* English phrases of a card's posted line, in any casing: "N day(s) /
\* hour(s) / minute(s) ago" with or without the number and a leading
\* "posted"; ISO dates, well formed or not; other words.
EnNumbers == { <<>>, <<"1", " ">>, <<"5", " ">>,
               <<"8", "0", "0", "0", "0", "0", " ">> }

EnPhrases ==
    UNION { Casings(pre \o n \o u) :
              pre \in { <<>>, <<"p", "o", "s", "t", "e", "d", " ">> },
              n \in EnNumbers,
              u \in { DayAgo, DaysAgo, HourAgo, HoursAgo, MinuteAgo, MinutesAgo } }
    \cup { <<"2", "0", "2", "4", "-", "0", "1", "-", "0", "5">>,
           <<"2", "0", "2", "4", "-", "1", "-", "5">>,
           <<"2", "0", "2", "4", "-", "0", "1", "-", " ", "5">>,
           <<"2", "0", "2", "4", "-", "0", "2", "-", "2", "9">>,
           <<"2", "0", "2", "3", "-", "0", "2", "-", "2", "9">>,
           <<"2", "0", "2", "4", "-", "1", "3", "-", "0", "1">>,
           <<"0", "0", "0", "0", "-", "0", "1", "-", "0", "1">>,
           <<"2", "9", "9", "9", "-", "1", "2", "-", "3", "1">>,
           <<"2", "4", "-", "0", "1", "-", "0", "5">>,
           <<"2", "0", "2", "4", "-", "0", "1", "-", "0", "5", " ", "1", "0", ":", "0", "0">>,
           <<"p", "o", "s", "t", "e", "d", " ", "t", "o", "d", "a", "y">>,
           <<"5">> }

EnInputs ==
    { PyNone }
    \cup { PyStr(p) : p \in Pads }
    \cup { PyStr(l \o ph \o r) : l \in Pads, r \in Pads, ph \in EnPhrases }

InitPosted ==
    \/ InitHelpers("parse_ar_posted", ArInputs)
    \/ InitHelpers("parse_posted_at", EnInputs)

ArPostedReturns ==
    /\ call.fn = "parse_ar_posted"
    /\ Return(parse_ar_posted(call.arg, UtcNow))

EnPostedReturns ==
    /\ call.fn = "parse_posted_at"
    /\ Return(parse_posted_at(call.arg, UtcNow))

NextPosted == ArPostedReturns \/ EnPostedReturns

SpecPosted == InitPosted /\ [][NextPosted]_vars

\* ---------------------------------------------------------------- classifier
\* The keyword tuples of mostaql.py, keyword by keyword.
ML_KW ==
    { <<"m", "a", "c", "h", "i", "n", "e", " ", "l", "e", "a", "r", "n", "i", "n", "g">>,
      <<"d", "e", "e", "p", " ", "l", "e", "a", "r", "n", "i", "n", "g">>,
      <<"p", "y", "t", "o", "r", "c", "h">>,
      <<"t", "e", "n", "s", "o", "r", "f", "l", "o", "w">>,
      <<"m", "l">>,
      <<"a", "i">>,
      <<"U+062A", "U+0639", "U+0644", "U+0645", " ", "U+0622", "U+0644", "U+064A">>,
      <<"U+0630", "U+0643", "U+0627", "U+0621", " ", "U+0627", "U+0635", "U+0637", "U+0646", "U+0627", "U+0639", "U+064A">>,
      <<"n", "l", "p">>,
      <<"c", "o", "m", "p", "u", "t", "e", "r", " ", "v", "i", "s", "i", "o", "n">>,
      <<"U+0631", "U+0624", "U+064A", "U+0629", " ", "U+062D", "U+0627", "U+0633", "U+0648", "U+0628", "U+064A", "U+0629">> }

DA_KW ==
    { <<"d", "a", "t", "a", " ", "a", "n", "a", "l", "y", "s", "i", "s">>,
      <<"a", "n", "a", "l", "y", "s", "t">>,
      <<"p", "o", "w", "e", "r", " ", "b", "i">>,
      <<"t", "a", "b", "l", "e", "a", "u">>,
      <<"e", "x", "c", "e", "l">>,
      <<"s", "q", "l">>,
      <<"e", "t", "l">>,
      <<"d", "a", "s", "h", "b", "o", "a", "r", "d">>,
      <<"U+062A", "U+062D", "U+0644", "U+064A", "U+0644", " ", "U+0628", "U+064A", "U+0627", "U+0646", "U+0627", "U+062A">>,
      <<"U+0645", "U+062D", "U+0644", "U+0644", " ", "U+0628", "U+064A", "U+0627", "U+0646", "U+0627", "U+062A">>,
      <<"U+0628", "U+0627", "U+0648", "U+0631", " ", "U+0628", "U+064A", " ", "U+0622", "U+064A">>,
      <<"U+062A", "U+0627", "U+0628", "U+0644", "U+0648">>,
      <<"U+0644", "U+0648", "U+062D", "U+0627", "U+062A", " ", "U+062A", "U+062D", "U+0643", "U+0645">> }

MK_KW ==
    { <<"m", "a", "r", "k", "e", "t", "i", "n", "g">>,
      <<"U+062A", "U+0633", "U+0648", "U+064A", "U+0642">>,
      <<"s", "o", "c", "i", "a", "l">>,
      <<"s", "m", "m">>,
      <<"s", "e", "o">>,
      <<"s", "e", "m">>,
      <<"a", "d", "s">>,
      <<"U+0625", "U+0639", "U+0644", "U+0627", "U+0646", "U+0627", "U+062A">>,
      <<"b", "r", "a", "n", "d">>,
      <<"b", "r", "a", "n", "d", "i", "n", "g">>,
      <<"c", "o", "n", "t", "e", "n", "t">>,
      <<"U+0645", "U+062D", "U+062A", "U+0648", "U+0649">>,
      <<"c", "o", "p", "y">>,
      <<"c", "o", "p", "y", "w", "r", "i", "t", "i", "n", "g">>,
      <<"U+0625", "U+062F", "U+0627", "U+0631", "U+0629", " ", "U+0635", "U+0641", "U+062D", "U+0627", "U+062A">>,
      <<"f", "a", "c", "e", "b", "o", "o", "k">>,
      <<"i", "n", "s", "t", "a", "g", "r", "a", "m">>,
      <<"t", "i", "k", "t", "o", "k">>,
      <<"U+062D", "U+0645", "U+0644", "U+0627", "U+062A">>,
      <<"c", "a", "m", "p", "a", "i", "g", "n">>,
      <<"m", "a", "n", "a", "g", "e", "r", " ", "s", "o", "c", "i", "a", "l">>,
      <<"d", "i", "g", "i", "t", "a", "l">> }

\* The AUJI profile names the classifier returns and looks for.
MachineLearning == <<"M", "a", "c", "h", "i", "n", "e", " ", "L", "e", "a", "r", "n", "i", "n", "g">>
DataAnalysis == <<"D", "a", "t", "a", " ", "A", "n", "a", "l", "y", "s", "i", "s">>
DigitalMarketing == <<"D", "i", "g", "i", "t", "a", "l", " ", "M", "a", "r", "k", "e", "t", "i", "n", "g">>

\* A lookup of keywords that finds none, whatever the text.
contains_nothing(text, keywords) == FALSE

\* _contains_any: some keyword is a substring of the lowercased text.
contains_any(text, keywords) ==
    \E k \in keywords : Contains(Lower(text), k)

\* _classify_profile(title, active_profiles, categories); act is
\* set(active_profiles or []), a title of None counts as "".
classify_profile(title, act, categories) ==
    LET t == Lower(IF title.none THEN <<>> ELSE title.str)
    IN  IF categories = "marketing" THEN DigitalMarketing
        ELSE IF categories = "development"
        THEN IF contains_any(t, ML_KW) /\ MachineLearning \in act
             THEN MachineLearning
             ELSE IF contains_any(t, DA_KW) /\ DataAnalysis \in act
             THEN DataAnalysis
             ELSE IF MachineLearning \in act /\ DataAnalysis \notin act
             THEN MachineLearning
             ELSE IF DataAnalysis \in act /\ MachineLearning \notin act
             THEN DataAnalysis
             ELSE DataAnalysis
        ELSE IF contains_any(t, MK_KW) THEN DigitalMarketing
        ELSE IF contains_any(t, ML_KW) /\ MachineLearning \in act
        THEN MachineLearning
        ELSE IF contains_any(t, DA_KW) /\ DataAnalysis \in act
        THEN DataAnalysis
        ELSE IF DigitalMarketing \in act THEN DigitalMarketing
        ELSE IF MachineLearning \in act /\ DataAnalysis \notin act
        THEN MachineLearning
        ELSE IF DataAnalysis \in act THEN DataAnalysis
        ELSE DigitalMarketing

\* _profiles_to_categories: the category string of a list of active
\* profile names, by substring tests on the trimmed, lowercased names.
profiles_to_categories(active_profiles) ==
    LET names == { Lower(Strip(x)) : x \in active_profiles }
        has_marketing ==
            \E x \in names : Contains(x, <<"m", "a", "r", "k", "e", "t", "i", "n", "g">>)
        has_data_or_ml ==
            \E x \in names : \/ Contains(x, <<"d", "a", "t", "a">>)
                             \/ Contains(x, <<"m", "a", "c", "h", "i", "n", "e">>)
    IN  IF has_marketing /\ has_data_or_ml THEN "development,marketing"
        ELSE IF has_marketing THEN "marketing"
        ELSE IF has_data_or_ml THEN "development"
        ELSE "marketing"

\* The three profile names, and the names a request may list: the three
\* and one written differently.
Profiles == {MachineLearning, DataAnalysis, DigitalMarketing}
ProfileNames == Profiles \cup { <<"m", "a", "r", "k", "e", "t", "i", "n", "g">> }

\* The category strings a direct request may give.
CategoryStrings ==
    {"marketing", "development", "development,marketing", "design"}

\* Words of project titles: keywords of each set (English and Arabic),
\* words that hold no keyword, and a word that holds one by accident
\* ("html" holds "ml").
TitleWords ==
    { <<"p", "y", "t", "o", "r", "c", "h">>,
      <<"U+062A", "U+0639", "U+0644", "U+0645", " ", "U+0622", "U+0644", "U+064A">>,
      <<"s", "q", "l">>,
      <<"U+062A", "U+062D", "U+0644", "U+064A", "U+0644", " ", "U+0628", "U+064A", "U+0627", "U+0646", "U+0627", "U+062A">>,
      <<"s", "e", "o">>,
      <<"U+062A", "U+0633", "U+0648", "U+064A", "U+0642">>,
      <<"l", "o", "g", "o">>,
      <<"U+062A", "U+0635", "U+0645", "U+064A", "U+0645">>,
      <<"h", "t", "m", "l">> }

\* A card's title is its link text with single spaces; a card with an
\* empty title is skipped before it is classified.
Titles ==
    UNION { Casings(Join(ws)) :
              ws \in UNION { [1..n -> TitleWords] : n \in 1..MaxParts } }

\* scrape_mostaql_for_profiles classifies with the listed profiles and the
\* category string built from them; scrape_mostaql called by the direct
\* endpoint classifies with the given string and no profile.
ClassifyInputs ==
    LET titles == { PyStr(x) : x \in Titles }
    IN  { [ title |-> ti, act |-> a,
            categories |-> profiles_to_categories(a) ] :
            ti \in titles, a \in SUBSET ProfileNames }
        \cup
        { [ title |-> ti, act |-> {}, categories |-> c ] :
            ti \in titles, c \in CategoryStrings }

InitClassify == InitHelpers("_classify_profile", ClassifyInputs)

ClassifyReturns ==
    /\ call.fn = "_classify_profile"
    /\ Return(classify_profile(call.arg.title, call.arg.act,
                               call.arg.categories))

SpecClassify == InitClassify /\ [][ClassifyReturns]_vars

\* ---------------------------------------------------------------- URLs
\* The index of the first character of set cs in t at or after i, and
\* Len(t) + 1 when there is none.
RECURSIVE FindChar(_, _, _)
FindChar(t, i, cs) ==
    IF i > Len(t) \/ t[i] \in cs THEN i ELSE FindChar(t, i + 1, cs)

\* t.split(sep) for a one-character separator.
RECURSIVE Split(_, _)
Split(t, sep) ==
    LET k == FindChar(t, 1, {sep})
    IN  IF k > Len(t) THEN << t >>
        ELSE << SubSeq(t, 1, k - 1) >> \o Split(SubSeq(t, k + 1, Len(t)), sep)

Letters ==
    { UpperCase[k] : k \in DOMAIN UpperCase } \cup
    { LowerCase[k] : k \in DOMAIN LowerCase }

\* urllib.parse.scheme_chars
SchemeChars == Letters \cup DigitSet \cup {"+", "-", "."}

\* urllib.parse.urlparse(url): the scheme before the first ":" when all its
\* characters are scheme characters, the netloc after "//" up to the next
\* "/", "?" or "#", then the fragment after the first "#" and the query
\* after the first "?".  (The links here hold no ";", so the path has no
\* parameters to split off.)
urlparse(url) ==
    LET colon == FindChar(url, 1, {":"})
        hasScheme == /\ colon <= Len(url)
                     /\ colon > 1
                     /\ url[1] \in Letters
                     /\ \A k \in 1..(colon - 1) : url[k] \in SchemeChars
        rest1 == IF hasScheme THEN SubSeq(url, colon + 1, Len(url)) ELSE url
        hasNet == StartsWith(rest1, 1, <<"/", "/">>)
        netEnd == IF hasNet THEN FindChar(rest1, 3, {"/", "?", "#"}) ELSE 1
        rest2 == SubSeq(rest1, netEnd, Len(rest1))
        hash == FindChar(rest2, 1, {"#"})
        rest3 == SubSeq(rest2, 1, hash - 1)
        mark == FindChar(rest3, 1, {"?"})
    IN  [ scheme |-> IF hasScheme THEN Lower(SubSeq(url, 1, colon - 1))
                     ELSE <<>>,
          netloc |-> IF hasNet THEN SubSeq(rest1, 3, netEnd - 1) ELSE <<>>,
          path |-> SubSeq(rest3, 1, mark - 1),
          query |-> SubSeq(rest3, mark + 1, Len(rest3)),
          fragment |-> SubSeq(rest2, hash + 1, Len(rest2)) ]

\* The percent escapes of the characters that have a meaning in a URL.
Escapes ==
    << << <<"%", "2", "6">>, "&" >>, << <<"%", "2", "3">>, "#" >>, << <<"%", "3", "D">>, "=" >>,
       << <<"%", "3", "F">>, "?" >>, << <<"%", "2", "F">>, "/" >>, << <<"%", "2", "0">>, " " >> >>

\* urllib.parse.unquote(s.replace("+", " ")) as parse_qsl applies it to a
\* name and to a value.
RECURSIVE UnquotePlus(_)
UnquotePlus(s) ==
    IF s = <<>> THEN <<>>
    ELSE IF \E k \in DOMAIN Escapes : StartsWith(s, 1, Escapes[k][1])
    THEN LET k == CHOOSE k \in DOMAIN Escapes : StartsWith(s, 1, Escapes[k][1])
         IN  << Escapes[k][2] >> \o UnquotePlus(SubSeq(s, 4, Len(s)))
    ELSE << IF Head(s) = "+" THEN " " ELSE Head(s) >> \o UnquotePlus(Tail(s))

\* urllib.parse.parse_qs(query).get(key): the decoded values of the fields
\* "name=value" whose decoded name is key, in their order; a field without
\* "=" or with an empty value is dropped.
QueryGet(query, key) ==
    LET fields == Split(query, "&")
        eq(f) == FindChar(f, 1, {"="})
        kept == SelectSeq(fields,
                    LAMBDA f : /\ eq(f) < Len(f)
                               /\ UnquotePlus(SubSeq(f, 1, eq(f) - 1)) = key)
    IN  [ k \in DOMAIN kept |->
            UnquotePlus(SubSeq(kept[k], eq(kept[k]) + 1, Len(kept[k]))) ]

\* re.search(prefix + r"(\d+)", t): group(1) of the leftmost match, as a
\* one-element sequence; <<>> for no match.
SearchNumberAfter(t, prefix) ==
    LET at == { i \in DOMAIN t :
                  /\ StartsWith(t, i, prefix)
                  /\ i + Len(prefix) <= Len(t)
                  /\ t[i + Len(prefix)] \in DigitSet }
    IN  IF at = {} THEN <<>>
        ELSE LET i == CHOOSE i \in at : \A j \in at : i <= j
                 d == i + Len(prefix)
             IN  << SubSeq(t, d, RunEnd(t, d, DigitSet) - 1) >>

\* ---------------------------------------------------------------- vodafone.py
BASE_HOST == <<"j", "o", "b", "s", ".", "v", "o", "d", "a", "f", "o", "n", "e", ".", "c", "o", "m">>
BASE_ORIGIN == <<"h", "t", "t", "p", "s", ":", "/", "/">> \o BASE_HOST
DefaultDomain == <<"v", "o", "d", "a", "f", "o", "n", "e", ".", "c", "o", "m">>

\* f"{scheme}://{netloc}/careers/apply?pid={pid}&domain={domain}"
ApplyEndpoint(scheme, netloc, pid, domain) ==
    scheme \o <<":", "/", "/">> \o netloc \o <<"/", "c", "a", "r", "e", "e", "r", "s", "/", "a", "p", "p", "l", "y", "?", "p", "i", "d", "=">> \o pid
           \o <<"&", "d", "o", "m", "a", "i", "n", "=">> \o domain

\* to_apply_url(url) with default_domain = "vodafone.com".
to_apply_url(url) ==
    IF url.none \/ url.str = <<>> THEN url
    ELSE
    LET parsed == urlparse(url.str)
        scheme == IF parsed.scheme = <<>> THEN <<"h", "t", "t", "p", "s">> ELSE parsed.scheme
        netloc == IF parsed.netloc = <<>> THEN BASE_HOST ELSE parsed.netloc
        domains == QueryGet(parsed.query, <<"d", "o", "m", "a", "i", "n">>)
        domain == IF domains = <<>> THEN DefaultDomain ELSE domains[1]
        pids == QueryGet(parsed.query, <<"p", "i", "d">>)
        inQuery == SearchNumberAfter(parsed.query, <<"p", "i", "d", "=">>)
        inPath == SearchNumberAfter(parsed.path, <<"/", "j", "o", "b", "/">>)
    IN  IF Contains(parsed.path, <<"a", "p", "p", "l", "y">>)
        THEN IF pids # <<>>
             THEN PyStr(ApplyEndpoint(scheme, netloc, pids[1], domain))
             ELSE IF inQuery # <<>>
             THEN PyStr(ApplyEndpoint(scheme, netloc, inQuery[1], domain))
             ELSE PyStr(scheme \o <<":", "/", "/">> \o netloc \o parsed.path
                               \o <<"?", "d", "o", "m", "a", "i", "n", "=">> \o domain)
        ELSE IF inPath # <<>>
        THEN PyStr(ApplyEndpoint(scheme, netloc, inPath[1], domain))
        ELSE url

\* Links of the careers site: an origin or none, a path (a job's page, the
\* apply page, the search page, any other page), up to MaxParts query
\* fields and a fragment or none.
UrlOrigins == { <<>>, BASE_ORIGIN, <<"h", "t", "t", "p", ":", "/", "/", "v", ".", "i", "o">> }
UrlPaths ==
    { <<"/", "c", "a", "r", "e", "e", "r", "s", "/", "j", "o", "b", "/", "1", "2">>, <<"/", "c", "a", "r", "e", "e", "r", "s", "/", "a", "p", "p", "l", "y">>, <<"/", "c", "a", "r", "e", "e", "r", "s">>, <<"/", "a", "b", "o", "u", "t">> }
UrlFields ==
    { <<"p", "i", "d", "=", "7">>, <<"d", "o", "m", "a", "i", "n", "=", "d", ".", "i", "o">>, <<"d", "o", "m", "a", "i", "n", "=", "a", "%", "2", "6", "b">>, <<"p", "i", "d", "=">>, <<"q", "u", "e", "r", "y", "=", "M", "L">> }
UrlFragments == { <<>>, <<"#", "t", "o", "p">> }

RECURSIVE JoinWith(_, _)
JoinWith(s, sep) ==
    IF Len(s) = 0 THEN <<>>
    ELSE IF Len(s) = 1 THEN s[1]
    ELSE s[1] \o << sep >> \o JoinWith(Tail(s), sep)

Urls ==
    { o \o p \o (IF fs = <<>> THEN <<>> ELSE <<"?">> \o JoinWith(fs, "&")) \o g :
        o \in UrlOrigins, p \in UrlPaths,
        fs \in UNION { [1..n -> UrlFields] : n \in 0..MaxParts },
        g \in UrlFragments }

UrlInputs == { PyNone, PyStr(<<>>) } \cup { PyStr(u) : u \in Urls }

InitUrl == InitHelpers("to_apply_url", UrlInputs)

ApplyUrlReturns ==
    /\ call.fn = "to_apply_url"
    /\ Return(to_apply_url(call.arg))

\* The result of a call is given to to_apply_url again.
ApplyUrlAgain ==
    /\ call.fn = "to_apply_url"
    /\ call.pc = "returned"
    /\ "again" \notin DOMAIN call
    /\ call' = [ fn |-> call.fn, pc |-> call.pc, arg |-> call.arg,
                 out |-> call.out, again |-> to_apply_url(call.out) ]
    /\ UNCHANGED <<db, now, sess, ret, lastCall, run, ext>>

NextUrl == ApplyUrlReturns \/ ApplyUrlAgain

SpecUrl == InitUrl /\ [][NextUrl]_vars

\* ---------------------------------------------------------------- extractors
\* A browser session: the windows it has open, in the order they were
\* opened ("list" is the window the driver starts with, "tab" a detail
\* tab), the window the driver's commands go to ("none" after that window
\* was closed), and whether the driver was quit.
NoBrowser == [ open |-> FALSE, windows |-> <<>>, current |-> "none" ]
NewBrowser == [ open |-> TRUE, windows |-> <<"list">>, current |-> "list" ]

\* A quit that ends nothing.
QuitNothing(b) == b

\* driver.quit(): ends the session and closes whatever windows are left.
Quit(b) == NoBrowser

\* The cards of the list page answer only while the list window is open
\* and is the one the driver's commands go to.
ListUsable(b) ==
    /\ b.open
    /\ b.current = "list"
    /\ \E k \in DOMAIN b.windows : b.windows[k] = "list"

\* driver.close(): closes the window the commands go to; closing the last
\* window ends the browser.
Close(b) ==
    LET left == SelectSeq(b.windows, LAMBDA w : w # b.current)
    IN  [ open |-> b.open /\ left # <<>>, windows |-> left,
          current |-> "none" ]

\* The cards of a list page: the title the card shows (None when no
\* selector finds one) and the href of its link (None when it has no link).
Job12 == BASE_ORIGIN \o <<"/", "c", "a", "r", "e", "e", "r", "s", "/", "j", "o", "b", "/", "1", "2">>
Job34 == BASE_ORIGIN \o <<"/", "c", "a", "r", "e", "e", "r", "s", "/", "j", "o", "b", "/", "3", "4">>
Cards ==
    { [ title |-> PyStr(<<"A", "n", "a", "l", "y", "s", "t">>), href |-> PyStr(Job12) ],
      [ title |-> PyStr(<<"A", "n", "a", "l", "y", "s", "t">>), href |-> PyStr(<<"/", "c", "a", "r", "e", "e", "r", "s", "/", "j", "o", "b", "/", "1", "2">>) ],
      [ title |-> PyStr(<<"E", "n", "g", "i", "n", "e", "e", "r">>), href |-> PyStr(Job34) ],
      [ title |-> PyNone, href |-> PyNone ] }

ListPages == UNION { [1..n -> Cards] : n \in 0..MaxPerPage }

\* What the detail tab shows: the href of its apply button (None when it
\* has none) and its requirements text (None when there is none).
ApplyLinks ==
    { PyNone,
      PyStr(<<"/", "c", "a", "r", "e", "e", "r", "s", "/", "a", "p", "p", "l", "y", "?", "p", "i", "d", "=", "1", "2">>),
      PyStr(BASE_ORIGIN \o <<"/", "c", "a", "r", "e", "e", "r", "s", "/", "a", "p", "p", "l", "y", "?", "p", "i", "d", "=", "1", "2", "&", "d", "o", "m", "a", "i", "n", "=", "v", "o", "d", "a", "f", "o", "n", "e", ".", "c", "o", "m">>) }
Requirements == { PyNone, PyStr(<<"S", "Q", "L">>) }

\* href.startswith("/") -> BASE_ORIGIN + href
Absolute(href) ==
    IF ~href.none /\ StartsWith(href.str, 1, <<"/">>)
    THEN PyStr(BASE_ORIGIN \o href.str) ELSE href

\* `a or b` for two optional strings.
OrStr(a, b) == IF a.none \/ a.str = <<>> THEN b ELSE a

\* The dict fetch_vodafone_jobs appends for a card.  (location and
\* posted_at are read from the card's text by helpers that catch every
\* exception; they take no part in what follows.)
Posting(title, detail_url, apply_url, requirements_text) ==
    LET canonical_apply == to_apply_url(OrStr(apply_url, detail_url))
    IN  [ title |-> Strip(title),
          company |-> "Vodafone",
          description |-> OrStr(requirements_text, PyNone),
          detail_url |-> detail_url,
          apply_url |-> canonical_apply,
          url |-> canonical_apply,
          source |-> "vodafone",
          employment_type |-> "full_time" ]

\* fetch_vodafone_jobs(list_url): create_driver, then the try block.
FetchBegin ==
    /\ ext = NoExtractor
    /\ ext' = [ fn |-> "fetch_vodafone_jobs", pc |-> "get",
                browser |-> NewBrowser, cards |-> <<>>, i |-> 1,
                jobs |-> <<>>, exc |-> FALSE ]
    /\ UNCHANGED <<db, now, sess, ret, lastCall, run, call>>

\* driver.get(list_url) and the search for cards: the page loads and shows
\* its cards, or the navigation raises.
FetchGet ==
    /\ ext.fn = "fetch_vodafone_jobs"
    /\ ext.pc = "get"
    /\ \/ \E page \in ListPages :
             ext' = [ ext EXCEPT !.pc = "card", !.cards = page ]
       \/ ext' = [ ext EXCEPT !.pc = "finally", !.exc = TRUE ]
    /\ UNCHANGED <<db, now, sess, ret, lastCall, run, call>>

\* One card, up to its link.  While the list window answers, the title is
\* the card's or "N/A" and the link is read; when it does not, every
\* _first() gives None and card.get_attribute("innerText") raises.
FetchCard ==
    /\ ext.fn = "fetch_vodafone_jobs"
    /\ ext.pc = "card"
    /\ ext.i <= Len(ext.cards)
    /\ LET card == ext.cards[ext.i]
           detail_url == Absolute(card.href)
       IN  IF ~ListUsable(ext.browser)
           THEN ext' = [ ext EXCEPT !.pc = "finally", !.exc = TRUE ]
           ELSE ext' = [ fn |-> ext.fn,
                         pc |-> IF detail_url.none \/ detail_url.str = <<>>
                                THEN "append" ELSE "open",
                         browser |-> ext.browser, cards |-> ext.cards,
                         i |-> ext.i, jobs |-> ext.jobs, exc |-> FALSE,
                         title |-> IF card.title.none THEN <<"N", "/", "A">>
                                   ELSE card.title.str,
                         detail_url |-> detail_url,
                         apply_url |-> IF detail_url.none \/ detail_url.str = <<>>
                                       THEN detail_url ELSE PyNone,
                         requirements_text |-> PyNone,
                         before |-> ext.browser,
                         failed |-> FALSE ]
    /\ UNCHANGED <<db, now, sess, ret, lastCall, run, call>>

\* _open_new_tab_get_apply_and_desc: window.open(detail_url, '_blank')
\* opens a tab, or raises.
TabOpen ==
    /\ ext.fn = "fetch_vodafone_jobs"
    /\ ext.pc = "open"
    /\ \/ ext' = [ ext EXCEPT !.pc = "switch",
                      !.browser.windows = Append(@, "tab") ]
       \/ ext' = [ ext EXCEPT !.pc = "tab finally", !.failed = TRUE ]
    /\ UNCHANGED <<db, now, sess, ret, lastCall, run, call>>

\* driver.switch_to.window(driver.window_handles[-1]), or it raises.
TabSwitch ==
    /\ ext.fn = "fetch_vodafone_jobs"
    /\ ext.pc = "switch"
    /\ \/ ext' = [ ext EXCEPT !.pc = "read",
                      !.browser.current =
                          ext.browser.windows[Len(ext.browser.windows)] ]
       \/ ext' = [ ext EXCEPT !.pc = "tab finally", !.failed = TRUE ]
    /\ UNCHANGED <<db, now, sess, ret, lastCall, run, call>>

\* The apply button's href and the requirements text are read from the
\* tab, or btn.get_attribute("href") raises.  (The wait for <body> and
\* _extract_requirements_text_from_doc catch what they raise.)
TabRead ==
    /\ ext.fn = "fetch_vodafone_jobs"
    /\ ext.pc = "read"
    /\ \/ \E a \in ApplyLinks, r \in Requirements :
             ext' = [ ext EXCEPT !.pc = "tab finally",
                        !.apply_url = Absolute(a),
                        !.requirements_text = OrStr(r, PyNone) ]
       \/ ext' = [ ext EXCEPT !.pc = "tab finally", !.failed = TRUE ]
    /\ UNCHANGED <<db, now, sess, ret, lastCall, run, call>>

\* The window the driver is left with by
\*     driver.close(); driver.switch_to.window(driver.window_handles[0])
\* inside try / except Exception: pass.
ClosedAndSwitched(b) ==
    LET c == Close(b)
    IN  IF ~b.open \/ b.current = "none" THEN b
        ELSE IF c.windows = <<>> THEN c
        ELSE [ c EXCEPT !.current = c.windows[1] ]

\* The finally block of _open_new_tab_get_apply_and_desc; then either the
\* tuple is returned and unpacked, and `if not apply_url` falls back to the
\* detail URL, or the exception reaches `except Exception: pass` of the
\* caller with apply_url and requirements_text still None.
TabFinally ==
    /\ ext.fn = "fetch_vodafone_jobs"
    /\ ext.pc = "tab finally"
    /\ ext' = [ ext EXCEPT
                  !.pc = "append",
                  !.browser = ClosedAndSwitched(ext.browser),
                  !.apply_url = IF ext.failed THEN PyNone
                                ELSE OrStr(ext.apply_url, ext.detail_url),
                  !.requirements_text = IF ext.failed THEN PyNone ELSE @ ]
    /\ UNCHANGED <<db, now, sess, ret, lastCall, run, call>>

\* jobs.append({...}) and the next card.
FetchAppend ==
    /\ ext.fn = "fetch_vodafone_jobs"
    /\ ext.pc = "append"
    /\ ext' = [ ext EXCEPT
                  !.pc = "card",
                  !.i = @ + 1,
                  !.jobs = Append(@, Posting(ext.title, ext.detail_url,
                                             ext.apply_url,
                                             ext.requirements_text)) ]
    /\ UNCHANGED <<db, now, sess, ret, lastCall, run, call>>

\* `return jobs` after the last card.
FetchLoopEnds ==
    /\ ext.fn = "fetch_vodafone_jobs"
    /\ ext.pc = "card"
    /\ ext.i > Len(ext.cards)
    /\ ext' = [ ext EXCEPT !.pc = "finally" ]
    /\ UNCHANGED <<db, now, sess, ret, lastCall, run, call>>

\* finally: driver.quit(); the call returns jobs or raises.
FetchFinally ==
    /\ ext.fn = "fetch_vodafone_jobs"
    /\ ext.pc = "finally"
    /\ ext' = [ ext EXCEPT !.pc = IF ext.exc THEN "raised" ELSE "returned",
                           !.browser = Quit(ext.browser) ]
    /\ UNCHANGED <<db, now, sess, ret, lastCall, run, call>>

NextFetch ==
    \/ FetchBegin \/ FetchGet \/ FetchCard
    \/ TabOpen \/ TabSwitch \/ TabRead \/ TabFinally
    \/ FetchAppend \/ FetchLoopEnds \/ FetchFinally


\* ---------------------------------------------------------------- mostaql.py
MostaqlOrigin == <<"h", "t", "t", "p", "s", ":", "/", "/", "m", "o", "s", "t", "a", "q", "l", ".", "c", "o", "m">>

\* The links LINK_SELECTOR finds in a listing: the link text (with single
\* spaces), the href attribute (None when absent) and the text of the meta
\* line that tells when the project was posted (None when there is none).
Links ==
    { [ title |-> <<"l", "o", "g", "o">>, href |-> PyStr(<<"/", "p", "r", "o", "j", "e", "c", "t", "/", "1">>),
        posted |-> PyNone ],
      [ title |-> <<"l", "o", "g", "o">>, href |-> PyStr(MostaqlOrigin \o <<"/", "p", "r", "o", "j", "e", "c", "t", "/", "1">>),
        posted |-> PyStr(<<"U+0645", "U+0646", "U+0630", " ", "3", " ", "U+0633", "U+0627", "U+0639", "U+0627", "U+062A">>) ],
      [ title |-> <<"S", "Q", "L">>, href |-> PyStr(<<" ", "/", "p", "r", "o", "j", "e", "c", "t", "/", "2", " ">>),
        posted |-> PyStr(<<"U+0645", "U+0646", "U+0630", " ", "8", "0", "0", "0", "0", "0", " ", "U+064A", "U+0648", "U+0645">>) ],
      [ title |-> <<>>, href |-> PyStr(<<"/", "p", "r", "o", "j", "e", "c", "t", "/", "3">>), posted |-> PyNone ],
      [ title |-> <<"s", "e", "o">>, href |-> PyNone, posted |-> PyNone ] }

Listings == UNION { [1..n -> Links] : n \in 0..MaxPerPage }

\* The loop of _extract_jobs_from_html over the links left, with the set
\* seen and the list out so far: the postings, or that parse_ar_posted
\* raised.
RECURSIVE ExtractFrom(_, _, _, _, _)
ExtractFrom(links, seen, out, categories, act) ==
    IF links = <<>> THEN [ raised |-> FALSE, out |-> out ]
    ELSE
    LET a == Head(links)
        href == IF a.href.none THEN <<>> ELSE Strip(a.href.str)
        full == IF StartsWith(href, 1, <<"/">>) THEN MostaqlOrigin \o href
                ELSE href
        posted_at == parse_ar_posted(a.posted, UtcNow)
    IN  IF a.title = <<>> \/ href = <<>>
        THEN ExtractFrom(Tail(links), seen, out, categories, act)
        ELSE IF href \in seen
        THEN ExtractFrom(Tail(links), seen, out, categories, act)
        ELSE IF posted_at.kind = "raised"
        THEN [ raised |-> TRUE, out |-> <<>> ]
        ELSE ExtractFrom(Tail(links), seen \cup {href},
                 Append(out,
                     [ title |-> a.title,
                       company |-> <<"U+0645", "U+0633", "U+062A", "U+0642", "U+0644">>,
                       description |-> PyNone,
                       detail_url |-> PyStr(full),
                       apply_url |-> PyStr(full),
                       url |-> PyStr(full),
                       source |-> "mostaql",
                       category |-> classify_profile(PyStr(a.title), act,
                                                     categories),
                       employment_type |-> "freelance",
                       posted_at |-> posted_at ]),
                 categories, act)

\* _extract_jobs_from_html(html, categories, active_profiles, debug_name)
extract_jobs_from_html(links, categories, act) ==
    ExtractFrom(links, {}, <<>>, categories, act)

\* The calls of scrape_mostaql: by the profiles endpoint with the category
\* string of the profiles, by the direct endpoint with no profile.
MostaqlCalls ==
    { [ act |-> a, categories |-> profiles_to_categories(a) ] :
        a \in { {}, {DataAnalysis}, {MachineLearning, DigitalMarketing} } }
    \cup { [ act |-> {}, categories |-> "development" ] }

\* scrape_mostaql(categories, pages, active_profiles): sync_playwright()
\* is entered and a browser launched.
MostaqlBegin ==
    /\ ext = NoExtractor
    /\ \E c \in MostaqlCalls, pages \in 1..MaxPages :
         ext' = [ fn |-> "scrape_mostaql", pc |-> "goto",
                  browser |-> NewBrowser, playwright |-> TRUE,
                  categories |-> c.categories, act |-> c.act,
                  pages |-> pages, i |-> 1, pageJobs |-> <<>>,
                  results |-> <<>>, exc |-> FALSE ]
    /\ UNCHANGED <<db, now, sess, ret, lastCall, run, call>>

\* One turn of the page loop: page.goto raises (a timeout), or the page
\* loads and its links are extracted, which may raise.
MostaqlPage ==
    /\ ext.fn = "scrape_mostaql"
    /\ ext.pc = "goto"
    /\ ext.i <= ext.pages
    /\ \/ ext' = [ ext EXCEPT !.pc = "exit", !.exc = TRUE ]
       \/ \E html \in Listings :
            LET items == extract_jobs_from_html(html, ext.categories, ext.act)
            IN  IF items.raised
                THEN ext' = [ ext EXCEPT !.pc = "exit", !.exc = TRUE ]
                ELSE ext' = [ ext EXCEPT !.i = @ + 1,
                                !.pageJobs = items.out,
                                !.results = @ \o items.out ]
    /\ UNCHANGED <<db, now, sess, ret, lastCall, run, call>>

\* browser.close() after the last page.
MostaqlClose ==
    /\ ext.fn = "scrape_mostaql"
    /\ ext.pc = "goto"
    /\ ext.i > ext.pages
    /\ ext' = [ ext EXCEPT !.pc = "exit", !.browser = Quit(@) ]
    /\ UNCHANGED <<db, now, sess, ret, lastCall, run, call>>

\* Leaving `with sync_playwright() as p`: Playwright is stopped, and the
\* browsers it launched end with it; the call returns results or raises.
MostaqlExit ==
    /\ ext.fn = "scrape_mostaql"
    /\ ext.pc = "exit"
    /\ ext' = [ ext EXCEPT !.pc = IF ext.exc THEN "raised" ELSE "returned",
                           !.playwright = FALSE,
                           !.browser = Quit(ext.browser) ]
    /\ UNCHANGED <<db, now, sess, ret, lastCall, run, call>>

NextMostaql == MostaqlBegin \/ MostaqlPage \/ MostaqlClose \/ MostaqlExit

\* ---------------------------------------------------------------- vodafone.py
\* fetch_vodafone_job_details(url): create_driver, then the try block.
DetailsBegin ==
    /\ ext = NoExtractor
    /\ \E u \in { Job12, Job34 } :
         ext' = [ fn |-> "fetch_vodafone_job_details", pc |-> "get",
                  browser |-> NewBrowser, url |-> u, exc |-> FALSE ]
    /\ UNCHANGED <<db, now, sess, ret, lastCall, run, call>>

\* driver.get(url) raises, or the page loads and its fields are read, each
\* inside its own try / except.
DetailsGet ==
    /\ ext.fn = "fetch_vodafone_job_details"
    /\ ext.pc = "get"
    /\ \/ ext' = [ ext EXCEPT !.pc = "finally", !.exc = TRUE ]
       \/ \E a \in ApplyLinks, r \in Requirements :
            ext' = [ fn |-> ext.fn, pc |-> "finally",
                     browser |-> ext.browser, url |-> ext.url,
                     exc |-> FALSE,
                     data |-> [ apply_link |-> to_apply_url(Absolute(a)),
                                requirements |-> OrStr(r, PyNone),
                                detail_url |-> PyStr(ext.url),
                                source |-> "vodafone" ] ]
    /\ UNCHANGED <<db, now, sess, ret, lastCall, run, call>>

\* finally: driver.quit(); the call returns data or raises.
DetailsFinally ==
    /\ ext.fn = "fetch_vodafone_job_details"
    /\ ext.pc = "finally"
    /\ ext' = [ ext EXCEPT !.pc = IF ext.exc THEN "raised" ELSE "returned",
                           !.browser = Quit(ext.browser) ]
    /\ UNCHANGED <<db, now, sess, ret, lastCall, run, call>>

NextDetails == DetailsBegin \/ DetailsGet \/ DetailsFinally

\* The three extractors.
NextExtract == NextFetch \/ NextMostaql \/ NextDetails

SpecExtract == Init /\ [][NextExtract]_vars

\* ================================================================ claims
\* A row's identity key: the first non-empty of detail_url, apply_url, url.
IdentityKey(r) == Or(r.detail_url, Or(r.apply_url, r.url))

\* C1: after any sequence of save_jobs calls on an initially empty table, no
\* two rows of the same source have the same identity key.
C1_UniqueIdentity ==
    \A i, j \in DOMAIN db :
        (i # j /\ db[i].source = db[j].source /\ ~Empty(IdentityKey(db[i])))
            => IdentityKey(db[i]) # IdentityKey(db[j])

\* C2: save_jobs(L) called again right after save_jobs(L) inserts nothing, so
\* the number of rows after the second call is the number after the first.
C2_RepeatInsertsNothing ==
    \A s \in Sessions : sess[s].again => sess[s].pending = <<>>

\* The locals of session s after an iteration: the item and the row found.
Item(s) == sess[s].raw[1]
Iterated(s) == sess[s].pc = "loop" /\ sess[s].raw # <<>>
Matched(s) == Iterated(s) /\ sess[s].exists # 0

\* C3: a candidate with detail_url D is matched to (and merged into) a row
\* of its source with detail_url D whenever the table holds one, whatever
\* rows its apply_url would match, and is not inserted.
C3_IdentityPriority ==
    \A s \in Sessions :
        ( /\ Iterated(s)
          /\ ~Empty(Item(s).detail_url)
          /\ ~Empty(Item(s).source)
          /\ \E i \in DOMAIN db :
                /\ db[i].detail_url = Item(s).detail_url
                /\ db[i].source = Item(s).source )
        => /\ sess[s].exists # 0
           /\ db[sess[s].exists].detail_url = Item(s).detail_url
           /\ db[sess[s].exists].source = Item(s).source

\* C5: a candidate with no identity field is skipped: its iteration adds no
\* pending insert, changes no object and is not counted.
C5_NoIdentitySkipped ==
    [][ \A s \in Sessions :
          ( /\ sess[s].pc = "loop"
            /\ sess'[s].pc = "loop"
            /\ sess'[s].left = sess[s].left - 1
            /\ ~HasIdentity(sess'[s].raw[1]) )
          => /\ sess'[s].pending = sess[s].pending
             /\ sess'[s].view = sess[s].view
             /\ sess'[s].affected = sess[s].affected ]_vars

\* C6: a candidate that names a source is never matched to a row of another
\* source.
C6_SourceScoped ==
    \A s \in Sessions :
        (Matched(s) /\ ~Empty(Item(s).source))
            => db[sess[s].exists].source = Item(s).source

\* A loop iteration of session s that matched a row (and did not raise).
MergeStep(s) ==
    /\ sess[s].pc = "loop"
    /\ sess'[s].pc = "loop"
    /\ sess'[s].left = sess[s].left - 1
    /\ sess'[s].exists # 0

\* The commit of session s.
CommitStep(s) ==
    /\ sess[s].pc = "loop"
    /\ sess[s].left = 0
    /\ sess'[s].pc = "idle"

UpdatableSet == { Updatable[k] : k \in 1..Len(Updatable) }

\* C4: a merge leaves every field for which the candidate supplies None or
\* the empty string as it was, in the object and, at the commit, in the row.
C4_NonDestructiveMerge ==
    [][ \A s \in Sessions :
          /\ MergeStep(s) =>
                LET i == sess'[s].exists
                    c == sess'[s].raw[1]
                IN  \A f \in DOMAIN c :
                       Empty(c[f]) => sess'[s].view[i][f] = Loaded(sess[s], i)[f]
          /\ CommitStep(s) =>
                \A i \in DOMAIN db : db'[i] = Loaded(sess[s], i) ]_vars

C4_Witness ==
    \E s \in Sessions :
        /\ Matched(s)
        /\ Item(s).location = ""
        /\ sess[s].view[sess[s].exists].location = "L1"

\* C7: a call changes, in the row it matched, only fields of the fixed list
\* (so never created_at or employment_type) and changes no other row; the
\* ids, being positions, stay.
C7_MergeFrame ==
    [][ /\ \A i \in DOMAIN db :
             /\ i \in DOMAIN db'
             /\ \A f \in Columns \ UpdatableSet :
                   db'[i][f] = db[i][f]
             /\ (\A s \in Sessions : i \notin DOMAIN sess[s].view) => db'[i] = db[i]
        /\ \A s \in Sessions :
             MergeStep(s) =>
                \A f \in Columns \ UpdatableSet :
                   sess'[s].view[sess'[s].exists][f]
                      = Loaded(sess[s], sess'[s].exists)[f] ]_vars

C7_Witness ==
    \E s \in Sessions :
        /\ Matched(s)
        /\ sess[s].kind = "bulk"
        /\ Item(s).employment_type = "freelance"
        /\ sess[s].view[sess[s].exists] # sess[s].orig[sess[s].exists]
        /\ sess[s].orig[sess[s].exists].created_at < now

\* C8: the commit of a call leaves, in every row the call merged into,
\* updated_at at the time of the call.
C8_UpdatedAtSet ==
    [][ \A s \in Sessions :
          CommitStep(s) =>
             \A i \in DOMAIN sess[s].view : db'[i].updated_at = now ]_vars

\* C9: no step of the pipeline removes a row: every id (position) of the
\* table is still there afterwards.
C9_NeverDeletes ==
    [][ Len(db') >= Len(db) ]_vars

C9_Witness ==
    /\ AllIdle
    /\ ret = Returned(1)
    /\ Len(db) = 2

\* C10: two runs that overlap and both carry a candidate with the same
\* source and detail_url leave one row for it once both have committed.
C10_OneRowPerKey ==
    AllIdle =>
        \A i, j \in DOMAIN db :
            (i # j /\ db[i].source = db[j].source /\ ~Empty(db[i].detail_url))
                => db[i].detail_url # db[j].detail_url

\* A row without its timestamp fields.
StripTimes(r) == [ f \in DOMAIN r \ {"created_at", "updated_at"} |-> r[f] ]

\* C11: the commit of save_jobs(L) called again right after save_jobs(L)
\* leaves the table as it was, on every row and every field other than
\* created_at and updated_at.
C11_RepeatChangesNothing ==
    [][ \A s \in Sessions :
          (CommitStep(s) /\ sess[s].again) =>
              /\ Len(db') = Len(db)
              /\ \A i \in DOMAIN db : StripTimes(db'[i]) = StripTimes(db[i]) ]_vars

\* The identity fields of candidate c find a row of its source in table.
Persisted(table, c) ==
    \E i \in DOMAIN table :
        /\ table[i].source = c.source
        /\ \/ ~Empty(c.detail_url) /\ table[i].detail_url = c.detail_url
           \/ ~Empty(c.apply_url) /\ table[i].apply_url = c.apply_url
           \/ ~Empty(c.url) /\ table[i].url = c.url

\* C12: when a run fails between page iterations, the postings of the pages
\* extracted so far are in the table.
C12_PartialProgressCommitted ==
    [][ (run.pc = "fetch" /\ run'.pc = "except") =>
          \A k \in DOMAIN run.jobs :
              HasIdentity(run.jobs[k]) => Persisted(db', run.jobs[k]) ]_vars

\* The step in which the endpoint answers.
Responds == run.pc # "done" /\ run'.pc = "done"

\* C13: whichever endpoint serves the run, when the extractor or the store
\* raised the answer is the failure with the error's message and holds no
\* counts; the answer is a result object only when every page was extracted
\* and the save returned.
C13_FailurePropagates ==
    [][ Responds =>
          /\ (run.pc = "except" \/ ret.status = "raised") =>
                /\ run'.resp.status = "error"
                /\ DOMAIN run'.resp = {"status", "detail"}
                /\ run'.resp.detail =
                      (IF run.pc = "except" THEN run.exc ELSE "store error")
          /\ run'.resp.status = "ok" =>
                /\ run.page = run.pages
                /\ ret.status = "returned"
                /\ sess["http"].pc = "idle" ]_vars

C13_Witness ==
    /\ run.pc = "done"
    /\ run.endpoint = "mostaql/run"
    /\ run.resp = Failure("extractor error")
    /\ Len(db) > 0

\* The elements of list L that have some identity field.
WithIdentity(L) == { k \in DOMAIN L : HasIdentity(L[k]) }

\* C14: save_jobs counts exactly the elements that have an identity field,
\* each of them inserted or merged once, and the endpoint answers with that
\* count as `saved` and the length of the list as `fetched`.
C14_SavedCount ==
    [][ /\ ( /\ run.pc = "save"
             /\ sess["http"].kind = "save"
             /\ sess["http"].pc = "loop"
             /\ sess'["http"].pc = "loop"
             /\ sess'["http"].left = sess["http"].left - 1 ) =>
               LET S == sess["http"]
                   T == sess'["http"]
               IN  IF HasIdentity(RunItem)
                   THEN /\ T.affected = S.affected + 1
                        /\ \/ /\ Len(T.pending) = Len(S.pending) + 1
                              /\ T.view = S.view
                              /\ T.exists = 0
                           \/ /\ T.pending = S.pending
                              /\ T.exists \in DOMAIN T.view
                   ELSE /\ T.affected = S.affected
                        /\ T.pending = S.pending
                        /\ T.view = S.view
        /\ (Responds /\ run'.resp.status = "ok" /\ SavesWith(run.endpoint) = "save") =>
               /\ run'.resp.saved = Cardinality(WithIdentity(run.jobs))
               /\ run'.resp.fetched = Len(run.jobs)
               /\ run'.resp.saved <= run'.resp.fetched ]_vars

C14_Witness ==
    /\ run.pc = "done"
    /\ run.endpoint = "vodafone/run-url"
    /\ run.resp = OkSaved(2, 1)
    /\ Len(db) = 1
    /\ db[1].location = "L1"

\* The canonical employment types.
Canonical ==
    { <<"f", "u", "l", "l", "_", "t", "i", "m", "e">>,
      <<"p", "a", "r", "t", "_", "t", "i", "m", "e">>,
      <<"i", "n", "t", "e", "r", "n", "s", "h", "i", "p">>,
      <<"f", "r", "e", "e", "l", "a", "n", "c", "e">> }

AliasKeys == { mapping[i][1] : i \in DOMAIN mapping }

\* A call of norm_employment_type that has returned.
NormReturned == call.fn = "norm_employment_type" /\ call.pc = "returned"

\* C15: a canonical value comes back as it went in, and every key of the
\* alias table stands in the table once and comes back as one of the four
\* canonical values.
C15_EmploymentTypeRoundTrip ==
    NormReturned =>
        /\ (~call.arg.none /\ call.arg.str \in Canonical) => call.out = call.arg
        /\ (~call.arg.none /\ call.arg.str \in AliasKeys) =>
              /\ ~call.out.none
              /\ call.out.str \in Canonical
              /\ Cardinality({ i \in DOMAIN mapping :
                                 mapping[i][1] = call.arg.str }) = 1
              /\ \E i \in DOMAIN mapping :
                    mapping[i] = <<call.arg.str, call.out.str>>

C15_Witness ==
    /\ NormReturned
    /\ call.arg = PyStr(<<"U+062A", "U+062F", "U+0631", "U+064A", "U+0628">>)
    /\ call.out = PyStr(<<"i", "n", "t", "e", "r", "n", "s", "h", "i", "p">>)

\* C16: None, the empty string and a string of whitespace only give None; a
\* string whose trimmed, lowercased form is a key of the alias table gives
\* the key's value; any other string gives its trimmed, lowercased form.
C16_NormTotal ==
    NormReturned =>
        LET t == Lower(Strip(call.arg.str))
        IN  IF call.arg.none \/ t = <<>> THEN call.out = PyNone
            ELSE IF t \in AliasKeys
                 THEN \E i \in DOMAIN mapping : mapping[i] = <<t, call.out.str>>
                 ELSE call.out = PyStr(t)

\* The numbers N for which t holds an "N <word>" form: a whole run of
\* digits, then any whitespace, then one of the words.
NumberForms(t, words) ==
    { ParseInt(SubSeq(t, i, j - 1)) :
        <<i, j>> \in { ij \in (DOMAIN t) \X (1..(Len(t) + 1)) :
            /\ ij[1] < ij[2]
            /\ ij[1] = 1 \/ t[ij[1] - 1] \notin DigitSet
            /\ \A x \in ij[1]..(ij[2] - 1) : t[x] \in DigitSet
            /\ \E k \in ij[2]..(Len(t) + 1), w \in words :
                  /\ \A x \in ij[2]..(k - 1) : t[x] \in Whitespace
                  /\ StartsWith(t, k, w) } }

ArReturned == call.fn = "parse_ar_posted" /\ call.pc = "returned"
EnReturned == call.fn = "parse_posted_at" /\ call.pc = "returned"

\* C17: for a non-empty text parse_ar_posted returns now - N minutes when the
\* text (digits transliterated) holds an "N minutes" form, else now - N hours
\* for an "N hours" form, else now - N days for an "N days" form, else
\* now - 7 days for the week word, else now; never a time after now.
C17_ArabicPriority ==
    (ArReturned /\ ~call.arg.none /\ call.arg.str # <<>>) =>
        LET t  == to_ascii_digits(Strip(call.arg.str))
            mi == NumberForms(t, MinuteWords)
            ho == NumberForms(t, HourWords)
            da == NumberForms(t, DayWords)
        IN  /\ call.out.kind = "time"
            /\ call.out.at <= UtcNow
            /\ IF mi # {} THEN \E n \in mi : call.out.at = UtcNow - n
               ELSE IF ho # {} THEN \E n \in ho : call.out.at = UtcNow - 60 * n
               ELSE IF da # {} THEN \E n \in da : call.out.at = UtcNow - 1440 * n
               ELSE IF Contains(t, WeekWord) THEN call.out.at = UtcNow - 7 * 1440
               ELSE call.out.at = UtcNow

\* C18: neither parser raises; parse_posted_at returns now for None, for the
\* empty string and for a text it cannot parse (no "... ago" phrase and no
\* ISO date; a plural "... ago" phrase without any digit); parse_ar_posted
\* returns None for None and the empty string and a time for any other text.
C18_ParsersTotal ==
    /\ EnReturned =>
          LET t == Lower(Strip(call.arg.str))
              singular == \E u \in {DayAgo, HourAgo, MinuteAgo} : Contains(t, u)
              plural == \E u \in {DaysAgo, HoursAgo, MinutesAgo} : Contains(t, u)
          IN  /\ call.out.kind = "time"
              /\ (call.arg.none \/ call.arg.str = <<>>) => call.out.at = UtcNow
              /\ (~singular /\ ~plural /\ StrptimeYmd(t) = <<>>)
                    => call.out.at = UtcNow
              /\ (~singular /\ plural /\ \A i \in DOMAIN t : t[i] \notin DigitSet)
                    => call.out.at = UtcNow
    /\ ArReturned =>
          IF call.arg.none \/ call.arg.str = <<>>
          THEN call.out = NoneTime
          ELSE call.out.kind = "time"

ClassifyReturned == call.fn = "_classify_profile" /\ call.pc = "returned"

\* The title of the call holds a keyword of the set kw.
TitleMatches(kw) ==
    /\ ~call.arg.title.none
    /\ \E k \in kw : Contains(Lower(call.arg.title.str), k)

\* The categories a listing of the given category string may be given.
Allowed(categories) ==
    IF categories = "marketing" THEN {DigitalMarketing}
    ELSE IF categories = "development" THEN {MachineLearning, DataAnalysis}
    ELSE Profiles

KeywordsOf(c) ==
    IF c = MachineLearning THEN ML_KW
    ELSE IF c = DataAnalysis THEN DA_KW
    ELSE MK_KW

\* C19: when the title holds a keyword of category C and of no other
\* category, and C is allowed by the category string and active, the
\* result is C, whatever else is active.
C19_KeywordWins ==
    ClassifyReturned =>
        \A c \in Allowed(call.arg.categories) :
            ( /\ c \in call.arg.act
              /\ TitleMatches(KeywordsOf(c))
              /\ \A d \in Profiles \ {c} : ~TitleMatches(KeywordsOf(d)) )
            => call.out = c

C19_Witness ==
    /\ ClassifyReturned
    /\ call.arg.categories = "development"
    /\ call.arg.act = {MachineLearning, DataAnalysis}
    /\ call.arg.title = PyStr(<<"S", "Q", "L">>)
    /\ call.out = DataAnalysis

\* C20: when the title holds no keyword, the result is the one allowed
\* category that is active if there is exactly one, and otherwise one
\* category fixed by the category string alone: the one the classifier
\* gives for that string with no title and nothing active.
C20_TieBreak ==
    (ClassifyReturned /\ \A d \in Profiles : ~TitleMatches(KeywordsOf(d))) =>
        LET active == Allowed(call.arg.categories) \cap call.arg.act
        IN  IF Cardinality(active) = 1
            THEN call.out \in active
            ELSE call.out = classify_profile(PyNone, {}, call.arg.categories)

UrlReturned == call.fn = "to_apply_url" /\ call.pc = "returned"

\* The digits of the job identifier a URL carries in its path after
\* "/job/" or in its query after "pid=", as a set.
JobIdsOf(u) ==
    LET parsed == urlparse(u)
        inPath == SearchNumberAfter(parsed.path, <<"/", "j", "o", "b", "/">>)
        inQuery == { f \in { Split(parsed.query, "&")[k] :
                               k \in DOMAIN Split(parsed.query, "&") } :
                       /\ StartsWith(f, 1, <<"p", "i", "d", "=">>)
                       /\ Len(f) > 4
                       /\ \A k \in 5..Len(f) : f[k] \in DigitSet }
    IN  { inPath[k] : k \in DOMAIN inPath } \cup
        { SubSeq(f, 5, Len(f)) : f \in inQuery }

\* C23: a URL that carries a job identifier in its path or in its query
\* gives scheme://host/careers/apply?pid=<id>&domain=<d>, with d the
\* URL's own domain field or "vodafone.com"; a URL with no identifier and
\* no apply path, None and "" are returned as they are.
C23_CanonicalApplyUrl ==
    UrlReturned =>
        IF call.arg.none \/ call.arg.str = <<>> THEN call.out = call.arg
        ELSE LET parsed == urlparse(call.arg.str)
                 scheme == IF parsed.scheme = <<>> THEN <<"h", "t", "t", "p", "s">>
                           ELSE parsed.scheme
                 netloc == IF parsed.netloc = <<>> THEN BASE_HOST
                           ELSE parsed.netloc
                 domains == QueryGet(parsed.query, <<"d", "o", "m", "a", "i", "n">>)
                 d == IF domains = <<>> THEN DefaultDomain ELSE domains[1]
                 ids == JobIdsOf(call.arg.str)
             IN  /\ ids # {} =>
                       \E id \in ids :
                           call.out = PyStr(ApplyEndpoint(scheme, netloc, id, d))
                 /\ (ids = {} /\ ~Contains(parsed.path, <<"a", "p", "p", "l", "y">>)) =>
                       call.out = call.arg

\* C28: to_apply_url applied to its own result returns that result.
C28_ApplyUrlIdempotent ==
    (UrlReturned /\ "again" \in DOMAIN call) => call.again = call.out

\* No two postings of the list have the same link target.
DistinctLinks(postings) ==
    \A i, j \in DOMAIN postings :
        (i < j /\ ~postings[i].detail_url.none)
            => postings[i].detail_url # postings[j].detail_url

\* C21: the postings an extractor returns for one page hold no two
\* postings with the same detail_url: the ones _extract_jobs_from_html
\* gives for a listing of Mostaql, and the ones fetch_vodafone_jobs returns.
C21_DistinctLinksPerPage ==
    /\ ext.fn = "scrape_mostaql" => DistinctLinks(ext.pageJobs)
    /\ (ext.fn = "fetch_vodafone_jobs" /\ ext.pc = "returned")
           => DistinctLinks(ext.jobs)

FetchFinished ==
    ext.fn = "fetch_vodafone_jobs" /\ ext.pc \in {"returned", "raised"}

\* C22: once the list page has shown its cards, fetch_vodafone_jobs
\* returns, with one posting for every card in the order of the cards,
\* whatever failed in a card's detail tab; and the posting of a card whose
\* tab failed has no description.
C22_PerItemTolerance ==
    /\ [](( FetchFinished /\ ext.cards # <<>> ) =>
            /\ ext.pc = "returned"
            /\ Len(ext.jobs) = Len(ext.cards)
            /\ \A k \in DOMAIN ext.cards :
                   ext.jobs[k].detail_url = Absolute(ext.cards[k].href))
    /\ [][ ( FetchAppend /\ ext.failed ) =>
               ext'.jobs[Len(ext'.jobs)].description = PyNone ]_vars

\* C25: when _open_new_tab_get_apply_and_desc is entered with the list
\* window open and current, then on every way out of it the list window
\* is open and current and as many windows are open as before; and at no
\* time is more than one detail tab open.
C25_SingleNavigationContext ==
    /\ []( ext.fn = "fetch_vodafone_jobs" =>
             Len(SelectSeq(ext.browser.windows, LAMBDA w : w = "tab")) <= 1 )
    /\ [][ ( TabFinally /\ ListUsable(ext.before) ) =>
               /\ ListUsable(ext'.browser)
               /\ Len(ext'.browser.windows) = Len(ext.before.windows) ]_vars

\* An extractor call has returned or raised.
ExtractorDone == ext.pc \in {"returned", "raised"}

\* C24: when a call of fetch_vodafone_jobs, fetch_vodafone_job_details or
\* scrape_mostaql has returned or raised, the browser it started is not
\* open and has no window.
C24_SessionReleased ==
    ExtractorDone => ( ~ext.browser.open /\ ext.browser.windows = <<>> )

\* A call raised in the middle of a page, after a posting was collected.
C24_Witness ==
    /\ ext.fn = "fetch_vodafone_jobs"
    /\ ext.pc = "raised"
    /\ Len(ext.jobs) = 1
    /\ ~ext.browser.open

\* C26: a call of save_jobs writes nothing before its commit, and a call
\* that raises writes nothing at all: while the loop runs, when a step
\* raises and when the session of the call that raised is closed, the
\* table stays as it was when the call began.
C26_AllOrNothing ==
    [][ ( /\ sess["http"].kind = "save"
          /\ sess["http"].pc \in {"loop", "raised"}
          /\ ~( sess["http"].pc = "loop" /\ ret'.status = "returned" ) )
        => db' = db ]_vars

\* A call raised after it had added a row to its session.
C26_Witness ==
    /\ sess["http"].pc = "raised"
    /\ sess["http"].pending # <<>>
    /\ ret = Raised

\* C27: no commit of save_jobs changes the source of a row the table
\* already holds.
C27_SourceNeverChanges ==
    [][ \A i \in DOMAIN db : db'[i].source = db[i].source ]_vars

\* save_jobs has merged a candidate of source "mostaql" into a row.
C27_Witness ==
    /\ sess["http"].kind = "save"
    /\ sess["http"].exists \in DOMAIN db
    /\ sess["http"].raw[1].source = "mostaql"
    /\ db[sess["http"].exists].source = "mostaql"

\* C29: a commit of save_jobs_bulk changes the title of a stored row only
\* from an empty title or "N/A" to a title that is neither empty nor "N/A".
C29_TitleProtected ==
    [][ ( sess["sched"].kind = "bulk" /\ sess["sched"].pc = "loop" ) =>
          \A i \in DOMAIN db :
              db'[i].title # db[i].title =>
                  /\ db[i].title \in {None, "", "N/A"}
                  /\ db'[i].title \notin {None, "", "N/A"} ]_vars

\* save_jobs_bulk has merged a candidate with a real title into a row
\* whose title is "N/A": the object carries the candidate's title.
C29_Witness ==
    /\ sess["sched"].kind = "bulk"
    /\ sess["sched"].exists \in DOMAIN db
    /\ sess["sched"].raw[1].title = "T2"
    /\ db[sess["sched"].exists].title = "N/A"
    /\ sess["sched"].view[sess["sched"].exists].title = "T2"

\* The columns on which the two implementations are compared.
Compared ==
    {"title", "company", "location", "detail_url", "apply_url", "url",
     "source", "category", "employment_type", "posted_at"}

OnCompared(table) ==
    [ i \in DOMAIN table |-> [ f \in Compared |-> table[i][f] ] ]

\* C30: when save_jobs and save_jobs_bulk have each iterated the same list
\* on the same table, the tables their commits would leave agree on the
\* compared columns and the counts they would return are equal.
C30_ImplementationsAgree ==
    ( /\ sess["http"].pc = "loop" /\ sess["http"].kind = "save"
      /\ sess["http"].left = 0
      /\ sess["sched"].pc = "loop" /\ sess["sched"].kind = "bulk"
      /\ sess["sched"].left = 0
      /\ sess["http"].raw = sess["sched"].raw )
    => /\ OnCompared(Flush(db, sess["http"])) =
              OnCompared(Flush(db, sess["sched"]))
       /\ sess["http"].affected = sess["sched"].affected

====
